---- MODULE Spec2Model ----
(***************************************************************************)
(* Model of the jailed codemod executor of ghostfrog-ltd/bob:              *)
(* chad_execute_plan (src/app.py), its jail check and its text helpers.    *)
(*                                                                         *)
(* A text is a sequence of code points; a path string is a record          *)
(* [abs, segs] (leading '/', the '/'-separated segments); a canonical      *)
(* absolute path is the sequence of its segments below '/'.                *)
(***************************************************************************)
EXTENDS Integers, Sequences, FiniteSets, TLC

VARIABLES
    fs,         \* regular files: canonical path -> [exists, text]
    plan,       \* task.edits of the plan handed to chad_execute_plan
    i,          \* index of the edit the loop handles next
    pc,         \* "chat" | "start" | "tool" | "analysis" | "loop" | "done" (report
                \* returned) | "crashed" (exception raised) | "replied" (no plan built)
    touched,    \* the list `touched`
    edit_logs,  \* the list `edit_logs`
    report,     \* exec_report once returned
    artifacts,  \* scratch / exec-report files written at the end of the run
    written,    \* history: canonical paths _safe_write_text has written
    hist,       \* history: one record per edit the loop has handled
    rq,         \* argument of a call of _resolve_in_project_jail
    rs,         \* its return value
    task,       \* plan["task"] without its edits: [type, analysis_file, tool]
    env,        \* the process environment and the SMTP server it reaches
    notes,      \* markdown notes: file name -> [exists, text]
    io,         \* history: [reads, writes, sent] of the tool and analysis branches
    exec_report,\* exec_report returned by the tool or analysis branch
    req,        \* the chat request and the planning model's replies to it
    seq_file,   \* SEQ_FILE (data/seq.txt): [exists, text]
    callers,    \* per request thread or process: its position in next_message_id
    issued,     \* history: the ids next_message_id has returned, in order
    user_txt,   \* data/queue/<base>.user.txt: base name -> the message it holds
    ticket,     \* run_ticket_with_tests' arguments: [safe_paths, max_attempts]
    root_dir,   \* the files below ROOT_DIR: relative path -> [kind, text]
    tpc,        \* position in run_ticket_with_tests: "idle" | "loop" | "prompt" |
                \* "pytest" | "restore" | "returned" | "raised"
    attempt,    \* the loop variable `attempt` (0 before the first iteration)
    snap,       \* the dict `snap` of the current iteration
    summary,    \* [success, attempts, last_error], returned at the end
    tlog,       \* history: one record per step of run_ticket_with_tests
    queue,      \* the *.json files of data/queue: file name -> [kind]
    items,      \* cmd_run_queue: the items it has still to run
    qpc,        \* position in cmd_run_queue: "idle" (not running) | "items"
    qargs,      \* its arguments: [retries, keep_failed, run], run counting the invocations
    qlog        \* history: one record per queue item that was run

runVars == <<fs, plan, i, pc, touched, edit_logs, report, artifacts, written, hist>>
jailVars == <<rq, rs>>
taskVars == <<task, env, notes, io, exec_report, req>>
execVars == <<runVars, jailVars, taskVars>>
seqVars == <<seq_file, callers, issued, user_txt>>
ticketVars == <<ticket, root_dir, tpc, attempt, snap, summary, tlog>>
queueVars == <<queue, items, qpc, qargs, qlog>>
metaVars == <<seqVars, ticketVars, queueVars>>
vars == <<runVars, jailVars, taskVars, metaVars>>

----------------------------------------------------------------------------
(* Bounds of the model *)

MaxLen == 2      \* longest edit content / initial file content (SpecText)
MaxEdits == 2    \* longest plan (Spec)
MaxSegs == 3     \* most segments of a path handed to the resolver (SpecJail)

----------------------------------------------------------------------------
(* Code points *)

LF == 10
CR == 13
TAB == 9
VT == 11
FF == 12
AsciiMax == 127
CtrlLimit == 32
Pound == 163

\* Stand-in for the phrase "rest of code unchanged": one code point ('~'),
\* searched as a substring exactly like the phrase.
NarrationPhrase == <<126>>

----------------------------------------------------------------------------
(* Sequence helpers *)

StartsWith(s, p) == Len(s) >= Len(p) /\ SubSeq(s, 1, Len(p)) = p

\* Python: p in s
Contains(s, p) ==
    \E k \in 1..(Len(s) - Len(p) + 1) : SubSeq(s, k, k + Len(p) - 1) = p

\* Python: s.replace(<<c>>, t) for a single character c
RECURSIVE ReplaceChar(_, _, _)
ReplaceChar(s, c, t) ==
    IF s = <<>> THEN <<>>
    ELSE (IF Head(s) = c THEN t ELSE <<Head(s)>>) \o ReplaceChar(Tail(s), c, t)

\* Python: s.replace("\r\n", "\n")
RECURSIVE ReplaceCRLF(_)
ReplaceCRLF(s) ==
    IF s = <<>> THEN <<>>
    ELSE IF Len(s) >= 2 /\ s[1] = CR /\ s[2] = LF
         THEN <<LF>> \o ReplaceCRLF(SubSeq(s, 3, Len(s)))
         ELSE <<Head(s)>> \o ReplaceCRLF(Tail(s))

\* Python: s.split("\n")
RECURSIVE SplitLF(_)
SplitLF(s) ==
    IF \A k \in 1..Len(s) : s[k] # LF THEN <<s>>
    ELSE LET k == CHOOSE k \in 1..Len(s) :
                      s[k] = LF /\ \A j \in 1..(k - 1) : s[j] # LF
         IN <<SubSeq(s, 1, k - 1)>> \o SplitLF(SubSeq(s, k + 1, Len(s)))

\* Python: "\n".join(lines)
RECURSIVE JoinLF(_)
JoinLF(lines) ==
    IF lines = <<>> THEN <<>>
    ELSE IF Len(lines) = 1 THEN lines[1]
    ELSE lines[1] \o <<LF>> \o JoinLF(Tail(lines))

\* Python str.isspace() for one character (code points the model can hold)
IsSpace(c) == c \in {TAB, LF, VT, FF, CR, 28, 29, 30, 31, 32, 133, 160}

\* Python: s.rstrip()
RECURSIVE RStrip(_)
RStrip(s) ==
    IF s = <<>> THEN <<>>
    ELSE IF IsSpace(s[Len(s)]) THEN RStrip(SubSeq(s, 1, Len(s) - 1)) ELSE s

\* Python: s.lstrip()
RECURSIVE LStrip(_)
LStrip(s) ==
    IF s = <<>> THEN <<>>
    ELSE IF IsSpace(Head(s)) THEN LStrip(Tail(s)) ELSE s

\* Python str.splitlines(): line boundaries \n \r \r\n \v \f \x1c \x1d \x1e \x85
IsLineBreak(c) == c \in {LF, CR, VT, FF, 28, 29, 30, 133}

RECURSIVE SplitLines(_)
SplitLines(s) ==
    IF s = <<>> THEN <<>>
    ELSE IF \A k \in 1..Len(s) : ~IsLineBreak(s[k]) THEN <<s>>
    ELSE LET k == CHOOSE k \in 1..Len(s) :
                      IsLineBreak(s[k]) /\ \A j \in 1..(k - 1) : ~IsLineBreak(s[j])
             n == IF s[k] = CR /\ k < Len(s) /\ s[k + 1] = LF THEN k + 2 ELSE k + 1
         IN <<SubSeq(s, 1, k - 1)>> \o SplitLines(SubSeq(s, n, Len(s)))

\* All texts over alphabet A of length at most n
RECURSIVE TextsOver(_, _)
TextsOver(A, n) ==
    IF n = 0 THEN {<<>>}
    ELSE LET S == TextsOver(A, n - 1)
         IN S \cup {Append(s, c) : s \in {t \in S : Len(t) = n - 1}, c \in A}

----------------------------------------------------------------------------
(* Text normalisation layer *)

\* variant: only CRLF pairs are replaced, a lone CR is kept
NormalizeNewlinesCRLFOnly(text) == ReplaceCRLF(text)

\* _normalize_newlines
NormalizeNewlines(text) == ReplaceChar(ReplaceCRLF(text), CR, <<LF>>)

\* _contains_suspicious_control_chars
ContainsSuspiciousControlChars(text) ==
    \E k \in 1..Len(text) : text[k] < CtrlLimit /\ text[k] \notin {LF, CR, TAB}

\* _strip_suspicious_control_chars: the definition the executor calls
StripSuspiciousControlChars(text) ==
    ReplaceChar(ReplaceChar(text, VT, <<>>), FF, <<>>)

\* Path.suffix.lower() of the file names of the model
Suffix(name) ==
    CASE name \in {"m.py"} -> ".py"
      [] name \in {"a.txt", "new.txt", "ro.txt", "passwd", "shadow"} -> ".txt"
      [] name \in {"s.js"} -> ".js"
      [] OTHER -> ""

PathSuffix(path) == IF path = <<>> THEN "" ELSE Suffix(path[Len(path)])

\* _detect_comment_prefix
DetectCommentPrefix(path) ==
    LET ext == PathSuffix(path)
    IN IF ext \in {".py", ".sh"} THEN <<35, 32>>
       ELSE IF ext \in {".js", ".ts", ".jsx", ".tsx", ".c", ".cpp", ".h"} THEN <<47, 47, 32>>
       ELSE IF ext \in {".php"} THEN <<47, 47, 32>>
       ELSE <<35, 32>>

----------------------------------------------------------------------------
(* The file tree and the jail *)

\* PROJECT_ROOT, resolved once at import
PROJECT_ROOT == <<"jail">>

\* AI_ROOT / data directories. Without ENV_PROJECT_JAIL the jail is AI_ROOT's
\* parent; with it the jail is the directory it names (here /jail, the
\* application being installed in /opt/ai).
AI_ROOT == IF env.jail_env THEN <<"opt", "ai">> ELSE <<"jail", "ai">>
DATA_ROOT == AI_ROOT \o <<"data">>
QUEUE_DIR == AI_ROOT \o <<"data", "queue">>
SCRATCH_DIR == AI_ROOT \o <<"data", "scratch">>
MARKDOWN_NOTES_DIR == DATA_ROOT \o <<"notes">>

Path(abs, segs) == [abs |-> abs, segs |-> segs]

\* Directories and symbolic links of the tree (fixed during a run)
Dirs == {<<>>, <<"jail">>, <<"jail", "sub">>, <<"etc">>}
Symlinks ==
    (<<"jail", "link">> :> <<"etc">>) @@ (<<"jail", "ln">> :> <<"jail", "a.txt">>)

\* Files whose open("w") raises PermissionError
WriteProtected == {<<"jail", "ro.txt">>}

\* PROJECT_ROOT / file_rel : an absolute right operand replaces the left one
JoinPath(root, rel) == IF rel.abs THEN rel.segs ELSE root \o rel.segs

\* Path.resolve(): '.' dropped, '..' pops the resolved parent, symlinks followed
RECURSIVE Walk(_, _)
Walk(cur, rest) ==
    IF rest = <<>> THEN cur
    ELSE LET s == Head(rest)
         IN IF s = "." THEN Walk(cur, Tail(rest))
            ELSE IF s = ".."
            THEN Walk(IF cur = <<>> THEN <<>> ELSE SubSeq(cur, 1, Len(cur) - 1), Tail(rest))
            ELSE IF Append(cur, s) \in DOMAIN Symlinks
            THEN Walk(<<>>, Symlinks[Append(cur, s)] \o Tail(rest))
            ELSE Walk(Append(cur, s), Tail(rest))

Resolve(abspath) == Walk(<<>>, abspath)

\* target.relative_to(root) succeeds
IsRelativeTo(target, root) == StartsWith(target, root)

\* target.relative_to(root)
RelativeTo(target, root) == Path(FALSE, SubSeq(target, Len(root) + 1, Len(target)))

\* the target and jail test at the head of each edit
EditTarget(file_rel) == Resolve(JoinPath(PROJECT_ROOT, file_rel))

\* variant: the jail test on the joined path, without resolve()
EscapesJailLexical(file_rel) ==
    ~IsRelativeTo(JoinPath(PROJECT_ROOT, file_rel), PROJECT_ROOT)

EscapesJail(file_rel) == ~IsRelativeTo(EditTarget(file_rel), PROJECT_ROOT)

\* variant: an escaping path falls back to the root instead of None
ResolveInProjectJailFallback(relative_path) ==
    LET target == Resolve(JoinPath(PROJECT_ROOT, relative_path))
    IN IF IsRelativeTo(target, PROJECT_ROOT)
       THEN [ok |-> TRUE, path |-> target]
       ELSE [ok |-> TRUE, path |-> PROJECT_ROOT]

\* _resolve_in_project_jail : [ok |-> FALSE] stands for None
ResolveInProjectJail(relative_path) ==
    LET rp == IF relative_path.abs \/ relative_path.segs # <<>>
              THEN relative_path ELSE Path(FALSE, <<".">>)
        target == Resolve(JoinPath(PROJECT_ROOT, rp))
    IN IF IsRelativeTo(target, PROJECT_ROOT)
       THEN [ok |-> TRUE, path |-> target]
       ELSE [ok |-> FALSE, path |-> <<>>]

\* a regular file with its text / a path that names nothing
File(text) == [exists |-> TRUE, text |-> text]
Absent == [exists |-> FALSE, text |-> <<>>]

\* Path.exists()
Exists(f, p) == p \in Dirs \/ (p \in DOMAIN f /\ f[p].exists)

\* _safe_read_text on a regular file
SafeReadText(f, p) == NormalizeNewlines(f[p].text)

\* what _safe_write_text leaves on disk
SafeWriteText(f, p, text) ==
    [f EXCEPT ![p] = [exists |-> TRUE, text |-> NormalizeNewlines(text)]]

----------------------------------------------------------------------------
(* chad_execute_plan, CODEMOD branch: the body of `for edit in edits` *)

Entry(file, op, reason) == [file |-> file, operation |-> op, reason |-> reason]

\* the "(none)" placeholder of a malformed edit's log entry
NonePath == Path(FALSE, <<"(none)">>)

\* `not file_rel` / `not op`
FileMissing(e) == ~e.file.abs /\ e.file.segs = <<>>
OpMissing(e) == e.operation = ""

\* variant: the reason does not name the operation
UnknownReasonBare(op) == "unknown operation"

\* f"unknown operation {op!r}"
UnknownReason(op) ==
    CASE op = "delete_file" -> "unknown operation 'delete_file'"
      [] OTHER -> "unknown operation"

HasNonAscii(line) == \E k \in 1..Len(line) : line[k] > AsciiMax

\* the narration filter of the .py guard
DropNarration(text) ==
    JoinLF(SelectSeq(SplitLF(text), LAMBDA line : ~Contains(line, NarrationPhrase)))

\* variant: no Unicode guard (the new text is taken as it is)
UnicodeGuardOff(original, new_text) == new_text

\* the line-by-line Unicode guard of the .py guard
UnicodeGuard(original, new_text) ==
    LET old_lines == SplitLF(original)
        new_lines == SplitLF(new_text)
        limit == IF Len(old_lines) < Len(new_lines) THEN Len(old_lines) ELSE Len(new_lines)
        Fix(idx) ==
            IF idx > limit THEN new_lines[idx]
            ELSE IF Contains(old_lines[idx], <<Pound>>) /\ ~Contains(new_lines[idx], <<Pound>>)
            THEN old_lines[idx]
            ELSE IF HasNonAscii(old_lines[idx]) /\ ~HasNonAscii(new_lines[idx])
            THEN old_lines[idx]
            ELSE new_lines[idx]
    IN JoinLF([idx \in 1..Len(new_lines) |-> Fix(idx)])

\* normalise, then strip when suspicious: [text, warned]
Cleaned(raw) ==
    LET n == NormalizeNewlines(raw)
    IN IF ContainsSuspiciousControlChars(n)
       THEN [text |-> StripSuspiciousControlChars(n), warned |-> TRUE]
       ELSE [text |-> n, warned |-> FALSE]

\* op == "create_or_overwrite_file": the text compared and written
OverwriteNewText(target, original, content) ==
    LET c == Cleaned(content)
    IN IF PathSuffix(target) = ".py"
       THEN [c EXCEPT !.text = UnicodeGuard(original, DropNarration(c.text))]
       ELSE c

\* op == "append_to_bottom"
AppendNewText(original, content) ==
    Cleaned(RStrip(original) \o <<LF, LF>> \o content \o <<LF>>)

\* op == "prepend_comment": the docstring-style test
IsDocstringPrepend(target, content) ==
    /\ PathSuffix(target) = ".py"
    /\ \/ StartsWith(LStrip(content), <<34, 34, 34>>)
       \/ StartsWith(LStrip(content), <<39, 39, 39>>)

PrependNewText(target, original, content) ==
    IF IsDocstringPrepend(target, content)
    THEN LET lines == SplitLines(original)
         IN IF lines # <<>> /\ StartsWith(lines[1], <<35, 33>>)
            THEN Cleaned(lines[1] \o <<LF, LF>> \o content \o <<LF, LF>> \o JoinLF(Tail(lines)))
            ELSE Cleaned(content \o <<LF, LF>> \o original)
    ELSE Cleaned(DetectCommentPrefix(target) \o content \o <<LF, LF>> \o original)

Outcome(kind, logs, target, original, text) ==
    [kind |-> kind, logs |-> logs, target |-> target, original |-> original, text |-> text]

\* variant: the no-op test compares the file with the edit's raw content
SettleRawCompare(e, target, original, nt, warn, noop, done) ==
    LET logs0 == IF nt.warned THEN <<Entry(e.file, e.operation, warn)>> ELSE <<>>
    IN IF original = e.content
       THEN Outcome("skip", logs0 \o <<Entry(e.file, e.operation, noop)>>, target, original, nt.text)
       ELSE IF target \in WriteProtected
       THEN Outcome("crash", logs0, target, original, nt.text)
       ELSE Outcome("write", logs0 \o <<Entry(e.file, e.operation, done)>>, target, original, nt.text)

\* variant: a no-op is skipped without a log entry
SettleSilentNoop(e, target, original, nt, warn, noop, done) ==
    LET logs0 == IF nt.warned THEN <<Entry(e.file, e.operation, warn)>> ELSE <<>>
    IN IF NormalizeNewlines(original) = nt.text
       THEN Outcome("skip", logs0, target, original, nt.text)
       ELSE IF target \in WriteProtected
       THEN Outcome("crash", logs0, target, original, nt.text)
       ELSE Outcome("write", logs0 \o <<Entry(e.file, e.operation, done)>>, target, original, nt.text)

\* warning entry, no-op test, write: the tail shared by the three operations
Settle(e, target, original, nt, warn, noop, done) ==
    LET logs0 == IF nt.warned THEN <<Entry(e.file, e.operation, warn)>> ELSE <<>>
    IN IF NormalizeNewlines(original) = nt.text
       THEN Outcome("skip", logs0 \o <<Entry(e.file, e.operation, noop)>>, target, original, nt.text)
       ELSE IF target \in WriteProtected
       THEN Outcome("crash", logs0, target, original, nt.text)
       ELSE Outcome("write", logs0 \o <<Entry(e.file, e.operation, done)>>, target, original, nt.text)

\* variant: no existence test, a missing target is read as empty
TargetMissingNever(f, target) == FALSE

\* the existence test between the jail test and the read
TargetMissing(f, target) == ~Exists(f, target)

\* one iteration of the edit loop on file tree f
EditOutcome(f, e) ==
    IF FileMissing(e) \/ OpMissing(e)
    THEN Outcome("skip",
                 <<Entry(IF FileMissing(e) THEN NonePath ELSE e.file,
                         IF OpMissing(e) THEN "(none)" ELSE e.operation,
                         "missing file or operation in edit")>>,
                 <<>>, <<>>, <<>>)
    ELSE LET target == EditTarget(e.file)
         IN IF EscapesJail(e.file)
            THEN Outcome("skip", <<Entry(e.file, e.operation, "target path escapes project jail")>>,
                         target, <<>>, <<>>)
            ELSE IF TargetMissing(f, target)
            THEN Outcome("skip", <<Entry(e.file, e.operation, "target file does not exist on disk")>>,
                         target, <<>>, <<>>)
            ELSE IF target \in Dirs
            THEN Outcome("crash", <<>>, target, <<>>, <<>>)
            ELSE LET original == SafeReadText(f, target)
                 IN CASE e.operation = "create_or_overwrite_file" ->
                           Settle(e, target, original,
                                  OverwriteNewText(target, original, e.content),
                                  "new content contained suspicious control characters which were stripped",
                                  "new content is identical to existing file",
                                  "file overwritten with new content")
                      [] e.operation = "append_to_bottom" ->
                           Settle(e, target, original,
                                  AppendNewText(original, e.content),
                                  "resulting content contained suspicious control characters which were stripped",
                                  "append produced no effective change",
                                  "content appended to bottom of file")
                      [] e.operation = "prepend_comment" ->
                           Settle(e, target, original,
                                  PrependNewText(target, original, e.content),
                                  "resulting content contained suspicious control characters which were stripped",
                                  IF IsDocstringPrepend(target, e.content)
                                  THEN "prepend produced no effective change"
                                  ELSE "prepend produced no effective change",
                                  IF IsDocstringPrepend(target, e.content)
                                  THEN "docstring-style block prepended to Python file"
                                  ELSE "comment line prepended to file")
                      [] OTHER ->
                           Outcome("skip", <<Entry(e.file, e.operation, UnknownReason(e.operation))>>,
                                   target, original, <<>>)

\* variant: the absolute target path is appended
TouchedEntryAbsolute(target) == Path(TRUE, target)

\* the entry appended to `touched` after a write
TouchedEntry(target) == RelativeTo(target, PROJECT_ROOT)

\* variant: the message is chosen by the edits requested, not by the files touched
MessageByEdits(touched_files, edits) ==
    IF edits # <<>> THEN "Chad executed Bob's plan and modified files."
    ELSE "Chad did not modify any files (no edits in plan)."

\* the final message
Message(touched_files, edits) ==
    IF touched_files # <<>> THEN "Chad executed Bob's plan and modified files."
    ELSE IF edits # <<>>
    THEN "Chad saw edits in the plan but skipped all of them; check edit_logs in the exec report for reasons."
    ELSE "Chad did not modify any files (no edits in plan)."

NoReport == [touched_files |-> <<>>, edits_requested |-> 0, edit_logs |-> <<>>, message |-> ""]

----------------------------------------------------------------------------
(* chad_execute_plan: the task dispatch, the TOOL branch, the ANALYSIS branch *)

\* task.get("type", "analysis"); "(missing)" stands for a task without the key
TaskType(t) == IF t.type = "(missing)" THEN "analysis" ELSE t.type

\* variant: a task that carries edits is run as a codemod whatever its type
BranchByEdits(t, edits) ==
    IF edits # <<>> THEN "loop"
    ELSE IF TaskType(t) = "tool" THEN "tool"
    ELSE IF TaskType(t) # "codemod" THEN "analysis"
    ELSE "loop"

\* the branch taken: `if task_type == "tool"`, `if task_type != "codemod"`, else
Branch(t, edits) ==
    IF TaskType(t) = "tool" THEN "tool"
    ELSE IF TaskType(t) # "codemod" THEN "analysis"
    ELSE "loop"

\* the two artifacts every branch writes before it returns
Artifacts == {SCRATCH_DIR \o <<"base.txt">>, QUEUE_DIR \o <<"base.exec.json">>}

ExecReport(kind, tool_name, tool_result, message, analysis_file) ==
    [kind |-> kind, touched_files |-> <<>>, tool_name |-> tool_name,
     tool_result |-> tool_result, message |-> message, analysis_file |-> analysis_file,
     result_text |-> <<>>]

\* no exec report yet
NoExecReport ==
    [kind |-> "", touched_files |-> <<>>, tool_name |-> "", tool_result |-> "",
     message |-> "", analysis_file |-> NonePath, result_text |-> <<>>]

\* what one tool call does: result and message, the files it read and wrote,
\* the notes it left, the mails it sent, and whether it raised
ToolOut(kind, result, message, reads, writes, nts, sent) ==
    [kind |-> kind, result |-> result, message |-> message, reads |-> reads,
     writes |-> writes, notes |-> nts, sent |-> sent, ran |-> {}, text |-> <<>>]

\* a file name holding a NUL character: resolve() raises ValueError
NulName == "a(NUL)b"
\* a file name longer than NAME_MAX: exists() raises OSError (ENAMETOOLONG)
LongName == "(300 characters)"

ResolveRaises(rel_path) == \E k \in 1..Len(rel_path.segs) : rel_path.segs[k] = NulName
ExistsRaises(target) == \E k \in 1..Len(target) : target[k] = LongName

\* the path argument of a tool makes _resolve_in_project_jail or exists() raise
PathRaises(rel_path) ==
    \/ ResolveRaises(rel_path)
    \/ LET r == ResolveInProjectJail(rel_path) IN r.ok /\ ExistsRaises(r.path)

\* the entries iterdir() / rglob("*") yield below directory d
Below(f, d, recursive) ==
    {p \in {q \in DOMAIN f : f[q].exists} \cup Dirs \cup DOMAIN Symlinks :
        /\ Len(p) > Len(d)
        /\ SubSeq(p, 1, Len(d)) = d
        /\ recursive \/ Len(p) = Len(d) + 1}

\* tool_name == "list_files"
ListFiles(f, nts, args) ==
    LET rel_path == IF args.path = Path(FALSE, <<>>) THEN Path(FALSE, <<".">>) ELSE args.path
        base_path == ResolveInProjectJail(rel_path)
    IN IF PathRaises(rel_path)
       THEN ToolOut("crash", "", "", {}, {}, nts, <<>>)
       ELSE IF ~base_path.ok \/ ~Exists(f, base_path.path)
       THEN ToolOut("ok", "",
                    "Chad tried to list_files but the path was invalid or outside the project jail.",
                    {}, {}, nts, <<>>)
       ELSE IF base_path.path \in Dirs /\ Below(f, base_path.path, args.recursive) = {}
       THEN ToolOut("ok", "No files or directories found.", "Chad found no entries.",
                    {base_path.path}, {}, nts, <<>>)
       ELSE ToolOut("ok", "Path / Type / Size(bytes):", "Chad listed entries.",
                    {base_path.path}, {}, nts, <<>>)

\* "\n\n... (truncated)"
TruncatedSuffix ==
    <<10, 10, 46, 46, 46, 32, 40, 116, 114, 117, 110, 99, 97, 116, 101, 100, 41>>

\* raw[:n] : a negative n counts from the end
Slice(raw, n) ==
    IF n >= 0
    THEN SubSeq(raw, 1, IF n < Len(raw) THEN n ELSE Len(raw))
    ELSE SubSeq(raw, 1, IF Len(raw) + n > 0 THEN Len(raw) + n ELSE 0)

\* the tool_result of read_file for the decoded text raw
ReadFileText(raw, max_chars) ==
    IF Len(raw) > max_chars THEN Slice(raw, max_chars) \o TruncatedSuffix ELSE raw

\* target_path.read_text(encoding="utf-8") : universal newlines
ReadText(f, p) == ReplaceChar(ReplaceCRLF(f[p].text), CR, <<LF>>)

\* tool_name == "read_file"
ReadFile(f, nts, args) ==
    LET target_path == ResolveInProjectJail(args.path)
    IN IF PathRaises(args.path)
       THEN ToolOut("crash", "", "", {}, {}, nts, <<>>)
       ELSE IF ~target_path.ok \/ ~Exists(f, target_path.path) \/ target_path.path \in Dirs
       THEN ToolOut("ok", "",
                    "Chad tried to read_file but it does not exist, is not a file, or is outside the project jail.",
                    {}, {}, nts, <<>>)
       ELSE LET raw == ReadText(f, target_path.path)
                tool_result == ReadFileText(raw, args.max_chars)
            IN [ToolOut("ok",
                        IF tool_result = <<>> THEN "" ELSE "(file text)",
                        "Chad read_file.",
                        {target_path.path}, {}, nts, <<>>)
                   EXCEPT !.text = tool_result]

\* chad/executor.py, tool_name == "run_python_script"
RunPythonScript(f, nts, args) ==
    LET target_path == ResolveInProjectJail(args.path)
    IN IF PathRaises(args.path)
       THEN ToolOut("crash", "", "", {}, {}, nts, <<>>)
       ELSE IF ~target_path.ok \/ ~Exists(f, target_path.path) \/ target_path.path \in Dirs
       THEN ToolOut("ok", "",
                    "Chad tried to run_python_script but the file does not exist, is not a file, or is outside the project jail.",
                    {}, {}, nts, <<>>)
       ELSE [ToolOut("ok", "Exit code.", "Chad ran run_python_script.",
                     {target_path.path}, {}, nts, <<>>)
                EXCEPT !.ran = {target_path.path}]

IsAlnum(c) == c \in (48..57) \cup (65..90) \cup (97..122)
Lower(c) == IF c \in 65..90 THEN c + 32 ELSE c

\* str.strip("-")
RECURSIVE StripDashes(_)
StripDashes(s) ==
    IF s = <<>> THEN <<>>
    ELSE IF Head(s) = 45 THEN StripDashes(Tail(s))
    ELSE IF s[Len(s)] = 45 THEN StripDashes(SubSeq(s, 1, Len(s) - 1))
    ELSE s

\* while "--" in base: base = base.replace("--", "-")
RECURSIVE CollapseDashes(_)
CollapseDashes(s) ==
    IF Len(s) < 2 THEN s
    ELSE IF s[1] = 45 /\ s[2] = 45 THEN CollapseDashes(Tail(s))
    ELSE <<Head(s)>> \o CollapseDashes(Tail(s))

\* the readings of the clock, in seconds
Clock == {0, 1}

\* "note-<timestamp>": the timestamp is the one digit of the clock's reading
TimestampSlug(now) == <<110, 111, 116, 101, 45, 48 + now>>

\* _slugify_for_markdown, called when the clock reads now
Slugify(title, now) ==
    LET stripped == LStrip(RStrip(title))
        base == StripDashes([k \in 1..Len(stripped) |->
                               IF IsAlnum(stripped[k]) THEN Lower(stripped[k]) ELSE 45])
    IN IF base = <<>> THEN TimestampSlug(now) ELSE CollapseDashes(base)

\* f"{slug}.md" as a file name
NoteName(slug) ==
    CASE slug = <<116>> -> "t.md"
      [] slug = <<116, 116>> -> "tt.md"
      [] slug = <<116, 116, 116>> -> "ttt.md"
      [] slug = <<116, 45, 116>> -> "t-t.md"
      [] slug = <<116, 116, 116, 116>> -> "tttt.md"
      [] slug = <<116, 45, 116, 116>> -> "t-tt.md"
      [] slug = <<116, 116, 45, 116>> -> "tt-t.md"
      [] slug = <<110, 111, 116, 101>> -> "note.md"
      [] slug = TimestampSlug(0) -> "note-0.md"
      [] slug = TimestampSlug(1) -> "note-1.md"
      [] OTHER -> "(other).md"

NoteNames ==
    {"t.md", "tt.md", "ttt.md", "t-t.md", "tttt.md", "t-tt.md", "tt-t.md",
     "note.md", "note-0.md", "note-1.md", "(other).md"}

\* tool_name in {"create_markdown_note", "append_to_markdown_note"}
MarkdownNote(f, nts, now, tool_name, args) ==
    LET title == LStrip(RStrip(args.title))
        slug == Slugify(IF title = <<>> THEN <<110, 111, 116, 101>> ELSE title, now)
        name == NoteName(slug)
        note_path == MARKDOWN_NOTES_DIR \o <<name>>
    IN IF tool_name = "create_markdown_note"
       THEN ToolOut("ok", "Created markdown note.", "Chad created a new markdown note.",
                    {}, {note_path}, [nts EXCEPT ![name] = File(args.content)], <<>>)
       ELSE IF nts[name].exists
       THEN ToolOut("ok", "Appended to markdown note.",
                    "Chad appended to an existing markdown note.",
                    {}, {note_path},
                    [nts EXCEPT ![name] =
                        File(nts[name].text \o
                             (IF args.content # <<>> /\ args.content[Len(args.content)] = LF
                              THEN args.content ELSE args.content \o <<LF>>))],
                    <<>>)
       ELSE ToolOut("ok", "Note did not exist; created.",
                    "Chad could not find an existing markdown note, so he created it.",
                    {}, {note_path}, [nts EXCEPT ![name] = File(args.content)], <<>>)

\* str.strip() of the addresses of the model
Strip(s) == CASE s = " to@srv " -> "to@srv" [] OTHER -> s

\* (os.getenv("SMTP_TO") or os.getenv("SMTP_TEST_TO") or "").strip()
ToAddr(en) == Strip(IF en.to # "" THEN en.to ELSE en.test_to)

\* os.getenv("SMTP_FROM") or smtp_user
FromAddr(en) == IF en.from # "" THEN en.from ELSE en.user

\* int(port_env) raises ValueError
PortRaises(en) == en.port \notin {"", "587", "465"}

\* the notes glob("*.md") can return as the most recent one
LatestNotes(nts) ==
    IF \E n \in DOMAIN nts : nts[n].exists
    THEN {n \in DOMAIN nts : nts[n].exists} ELSE {"(none)"}

\* p is an existing markdown note
IsNote(nts, p) ==
    \E n \in DOMAIN nts : nts[n].exists /\ p = MARKDOWN_NOTES_DIR \o <<n>>

\* `for rel in attachments`: the files read, up to the first that cannot be opened
RECURSIVE Attach(_, _, _)
Attach(f, nts, rels) ==
    IF rels = <<>> THEN [ok |-> TRUE, reads |-> {}]
    ELSE LET attach_path == ResolveInProjectJail(Head(rels))
         IN IF ~attach_path.ok \/ ~(Exists(f, attach_path.path) \/ IsNote(nts, attach_path.path))
            THEN Attach(f, nts, Tail(rels))
            ELSE IF attach_path.path \in Dirs
            THEN [ok |-> FALSE, reads |-> {}]
            ELSE LET rest == Attach(f, nts, Tail(rels))
                 IN [ok |-> rest.ok, reads |-> {attach_path.path} \cup rest.reads]

\* tool_name == "send_email"; latest is the most recent note, "(none)" without one
SendEmail(f, nts, en, args, latest) ==
    LET to_addr == ToAddr(en)
        auto_note == ~args.att_given /\ latest # "(none)"
        note_path == MARKDOWN_NOTES_DIR \o <<latest>>
        attachments ==
            IF auto_note
            THEN <<IF IsRelativeTo(note_path, PROJECT_ROOT)
                   THEN RelativeTo(note_path, PROJECT_ROOT)
                   ELSE Path(TRUE, note_path)>>
            ELSE args.attachments
        att == Attach(f, nts, attachments)
    IN IF PortRaises(en)
       THEN ToolOut("crash", "", "", {}, {}, nts, <<>>)
       ELSE IF to_addr = ""
       THEN ToolOut("ok", "",
                    "Chad was asked to send_email, but no SMTP_TO / SMTP_TEST_TO address is configured in the environment.",
                    {}, {}, nts, <<>>)
       ELSE IF en.host = "" \/ FromAddr(en) = ""
       THEN ToolOut("ok", "",
                    "Chad was asked to send_email, but SMTP settings are incomplete (need at least SMTP_HOST and SMTP_FROM or SMTP_USERNAME).",
                    {}, {}, nts, <<>>)
       ELSE IF ~en.smtp_up
       THEN ToolOut("ok", "", "Chad failed to send_email due to error.", {}, {}, nts, <<>>)
       ELSE IF ~att.ok
       THEN ToolOut("ok", "", "Chad failed to send_email due to error.", att.reads, {}, nts, <<>>)
       ELSE ToolOut("ok",
                    IF auto_note THEN "Attached file preview." ELSE "Email sent.",
                    "Chad sent an email.",
                    att.reads \cup (IF auto_note THEN {note_path} ELSE {}),
                    {}, nts,
                    <<[to |-> to_addr, from |-> FromAddr(en)]>>)

\* bob/tools_registry.py: the names chad/executor.py accepts
TOOL_REGISTRY ==
    {"get_current_datetime", "list_files", "read_file", "create_markdown_note",
     "append_to_markdown_note", "send_email", "run_python_script"}

\* a tool name holding a lone surrogate (JSON "\ud800"): write_text(...,
\* encoding="utf-8") of the scratch file raises UnicodeEncodeError
SurrogateName == "(lone surrogate)"
Unencodable(tool_name) == tool_name = SurrogateName

\* the TOOL branch up to its scratch file
ToolOutcome(f, nts, en, tool, latest) ==
    CASE en.refactored /\ tool.name # "" /\ tool.name \notin TOOL_REGISTRY ->
            ToolOut("ok", "",
                    "Chad was asked to run tool, but it is not registered in bob.tools_registry. No tool was executed.",
                    {}, {}, nts, <<>>)
      [] tool.name = "get_current_datetime" ->
            ToolOut("ok", "Local system date and time.",
                    "Chad ran tool 'get_current_datetime' using the system clock.",
                    {}, {}, nts, <<>>)
      [] tool.name = "list_files" -> ListFiles(f, nts, tool.args)
      [] tool.name = "read_file" -> ReadFile(f, nts, tool.args)
      [] tool.name \in {"create_markdown_note", "append_to_markdown_note"} ->
            MarkdownNote(f, nts, en.now, tool.name, tool.args)
      [] tool.name = "send_email" -> SendEmail(f, nts, en, tool.args, latest)
      [] en.refactored /\ tool.name = "run_python_script" -> RunPythonScript(f, nts, tool.args)
      [] OTHER ->
            ToolOut("ok", "", "Chad was asked to run an unknown tool. No tool was executed.",
                    {}, {}, nts, <<>>)

----------------------------------------------------------------------------
(* Actions *)

\* variant: every edit is computed from the tree as it was when the run began
ApplyEditStale ==
    /\ pc = "loop"
    /\ i <= Len(plan)
    /\ LET e == plan[i]
           out == EditOutcome(IF hist = <<>> THEN fs ELSE hist[1].before, e)
       IN /\ edit_logs' = edit_logs \o out.logs
          /\ hist' = Append(hist, [edit |-> e, before |-> fs,
                                   nLogs |-> Len(edit_logs), nTouched |-> Len(touched)])
          /\ IF out.kind = "crash"
             THEN pc' = "crashed" /\ UNCHANGED <<fs, i, touched, written>>
             ELSE IF out.kind = "write"
             THEN /\ fs' = SafeWriteText(fs, out.target, out.text)
                  /\ touched' = Append(touched, TouchedEntry(out.target))
                  /\ written' = written \cup {out.target}
                  /\ i' = i + 1
                  /\ pc' = pc
             ELSE /\ i' = i + 1
                  /\ UNCHANGED <<fs, touched, written, pc>>
    /\ UNCHANGED <<plan, report, artifacts, jailVars, metaVars, taskVars>>

\* one iteration of `for edit in edits`
ApplyEdit ==
    /\ pc = "loop"
    /\ i <= Len(plan)
    /\ LET e == plan[i]
           out == EditOutcome(fs, e)
       IN /\ edit_logs' = edit_logs \o out.logs
          /\ hist' = Append(hist, [edit |-> e, before |-> fs,
                                   nLogs |-> Len(edit_logs), nTouched |-> Len(touched)])
          /\ IF out.kind = "crash"
             THEN pc' = "crashed" /\ UNCHANGED <<fs, i, touched, written>>
             ELSE IF out.kind = "write"
             THEN /\ fs' = SafeWriteText(fs, out.target, out.text)
                  /\ touched' = Append(touched, TouchedEntry(out.target))
                  /\ written' = written \cup {out.target}
                  /\ i' = i + 1
                  /\ pc' = pc
             ELSE /\ i' = i + 1
                  /\ UNCHANGED <<fs, touched, written, pc>>
    /\ UNCHANGED <<plan, report, artifacts, jailVars, metaVars, taskVars>>

\* after the loop: scratch file, message, exec report, return
Finish ==
    /\ pc = "loop"
    /\ i > Len(plan)
    /\ artifacts' = {SCRATCH_DIR \o <<"base.txt">>, QUEUE_DIR \o <<"base.exec.json">>}
    /\ report' = [touched_files |-> touched,
                  edits_requested |-> Len(plan),
                  edit_logs |-> edit_logs,
                  message |-> Message(touched, plan)]
    /\ pc' = "done"
    /\ UNCHANGED <<fs, plan, i, touched, edit_logs, written, hist, jailVars, metaVars, taskVars>>

\* the head of chad_execute_plan: the branch is chosen by the task type
Dispatch ==
    /\ pc = "start"
    /\ pc' = Branch(task, plan)
    /\ UNCHANGED <<fs, plan, i, touched, edit_logs, report, artifacts, written, hist,
                   jailVars, metaVars, taskVars>>

\* the TOOL branch: the tool, the scratch file, the exec report
RunTool ==
    /\ pc = "tool"
    /\ \E latest \in LatestNotes(notes) :
          LET out == ToolOutcome(fs, notes, env, task.tool, latest)
          IN /\ io' = [reads |-> io.reads \cup out.reads,
                       writes |-> io.writes \cup out.writes,
                       sent |-> io.sent \o out.sent,
                       ran |-> io.ran \cup out.ran]
             /\ notes' = out.notes
             /\ IF out.kind = "crash"
                THEN pc' = "crashed" /\ UNCHANGED <<artifacts, exec_report>>
                ELSE IF Unencodable(task.tool.name)
                THEN /\ artifacts' = {SCRATCH_DIR \o <<"base.txt">>}
                     /\ pc' = "crashed"
                     /\ UNCHANGED exec_report
                ELSE /\ artifacts' = Artifacts
                     /\ exec_report' = [ExecReport("tool", task.tool.name, out.result,
                                                   out.message, NonePath)
                                           EXCEPT !.result_text = out.text]
                     /\ pc' = "done"
    /\ UNCHANGED <<fs, plan, i, touched, edit_logs, report, written, hist,
                   jailVars, metaVars, task, env, req>>

\* the ANALYSIS branch: every task type other than "tool" and "codemod"
RunAnalysis ==
    /\ pc = "analysis"
    /\ LET analysis_file == task.analysis_file
           target_path == Resolve(JoinPath(PROJECT_ROOT, analysis_file))
           readable == /\ analysis_file.abs \/ analysis_file.segs # <<>>
                       /\ IsRelativeTo(target_path, PROJECT_ROOT)
                       /\ Exists(fs, target_path)
       IN IF readable /\ target_path \in Dirs
          THEN pc' = "crashed" /\ UNCHANGED <<io, artifacts, exec_report>>
          ELSE /\ io' = [io EXCEPT !.reads = @ \cup (IF readable THEN {target_path} ELSE {})]
               /\ artifacts' = Artifacts
               /\ exec_report' =
                     IF readable
                     THEN ExecReport("analysis", "", "", "Chad fetched the file for analysis.",
                                     RelativeTo(target_path, PROJECT_ROOT))
                     ELSE ExecReport("analysis", "", "",
                                     "Chad performed analysis-only; no file was read.", NonePath)
               /\ pc' = "done"
    /\ UNCHANGED <<fs, plan, i, touched, edit_logs, report, written, hist,
                   jailVars, metaVars, task, env, notes, req>>


\* a task without a tool object
NoTool ==
    [name |-> "",
     args |-> [path |-> Path(FALSE, <<>>), recursive |-> FALSE, title |-> <<>>, content |-> <<>>,
               to |-> "", att_given |-> FALSE, attachments |-> <<>>, max_chars |-> 16000]]

\* "#bob no-tools"
NoToolsPrefix == <<35, 98, 111, 98, 32, 110, 111, 45, 116, 111, 111, 108, 115>>

\* str.lower()
LowerText(s) == [k \in 1..Len(s) |-> Lower(s[k])]

\* api_chat: the message without its surrounding space, the tools flag, and
\* the message the planner is given
ParseMessage(message) ==
    LET raw_message == LStrip(RStrip(message))
        off == StartsWith(LowerText(raw_message), NoToolsPrefix)
    IN [raw |-> raw_message,
        tools_enabled |-> ~off,
        text |-> IF off
                 THEN LStrip(SubSeq(raw_message, Len(NoToolsPrefix) + 1, Len(raw_message)))
                 ELSE raw_message]

Task(type, analysis_file, tool) == [type |-> type, analysis_file |-> analysis_file, tool |-> tool]

\* bob_build_plan: the task and the edits of the plan. reply is what the
\* planning model returned ([ok |-> FALSE]: the call or the parse failed).
\* tools_enabled only selects a paragraph of the prompt.
BobBuildPlan(api_key, tools_enabled, reply) ==
    IF ~api_key
    THEN [task |-> Task("chat", Path(FALSE, <<>>), NoTool), edits |-> <<>>]
    ELSE IF ~reply.ok
    THEN [task |-> Task("analysis", Path(FALSE, <<>>), NoTool), edits |-> <<>>]
    ELSE [task |-> Task(IF reply.task_type = "(missing)" THEN "analysis" ELSE reply.task_type,
                        reply.analysis_file, reply.tool),
          edits |-> reply.edits]

\* api_chat: the files of a codemod plan read as context for the refinement
FileContexts(f, edits) ==
    {Resolve(JoinPath(PROJECT_ROOT, edits[k].file)) :
        k \in {n \in 1..Len(edits) : ~FileMissing(edits[n])}}
        \cap {target \in DOMAIN f : f[target].exists /\ IsRelativeTo(target, PROJECT_ROOT)}

\* bob_refine_codemod_with_files: the refined task and edits
BobRefine(api_key, base, refined) ==
    IF ~api_key \/ ~refined.ok THEN base
    ELSE [task |-> Task("codemod", Path(FALSE, <<>>), NoTool), edits |-> refined.edits]

\* api_chat up to its call of chad_execute_plan
ApiChat ==
    /\ pc = "chat"
    /\ LET m == ParseMessage(req.message)
           first == BobBuildPlan(req.api_key, m.tools_enabled, req.reply)
           contexts == IF first.task.type = "codemod" THEN FileContexts(fs, first.edits) ELSE {}
           final == IF contexts # {} THEN BobRefine(req.api_key, first, req.refined) ELSE first
       IN IF m.raw = <<>> \/ m.text = <<>>
          THEN /\ pc' = "replied"
               /\ req' = [req EXCEPT !.ui = "I didn't receive any command."]
               /\ UNCHANGED <<task, plan, io>>
          ELSE /\ pc' = "start"
               /\ req' = [req EXCEPT !.tools_enabled = m.tools_enabled]
               /\ task' = final.task
               /\ plan' = final.edits
               /\ io' = [io EXCEPT !.reads = @ \cup contexts,
                                   !.writes = @ \cup {QUEUE_DIR \o <<"base.user.txt">>,
                                                      QUEUE_DIR \o <<"base.plan.json">>}]
    /\ UNCHANGED <<fs, i, touched, edit_logs, report, artifacts, written, hist,
                   jailVars, metaVars, env, notes, exec_report>>

\* api_chat after chad_execute_plan returned: the messages for the UI
ChatReply ==
    /\ pc = "done"
    /\ req.message # <<>>
    /\ pc' = "replied"
    /\ req' = [req EXCEPT !.ui =
                  IF TaskType(task) = "tool" THEN "Bob: Done (tool)."
                  ELSE IF task.analysis_file = Path(FALSE, <<>>) /\ plan = <<>> /\ task.tool = NoTool
                  THEN "Bob: Done (chat-only)."
                  ELSE IF TaskType(task) = "analysis" THEN "Bob: Done (analysis)."
                  ELSE "Bob: Done."]
    /\ io' = [io EXCEPT !.reads = @ \cup
                 (IF TaskType(task) # "tool"
                     /\ ~(task.analysis_file = Path(FALSE, <<>>) /\ plan = <<>> /\ task.tool = NoTool)
                     /\ TaskType(task) # "analysis"
                     /\ touched # <<>>
                  THEN {Resolve(JoinPath(PROJECT_ROOT, touched[1]))}
                       \cap {target \in DOMAIN fs : fs[target].exists /\ IsRelativeTo(target, PROJECT_ROOT)}
                  ELSE {})]
    /\ UNCHANGED <<fs, plan, i, touched, edit_logs, report, artifacts, written, hist,
                   jailVars, metaVars, task, env, notes, exec_report>>

Next == ApplyEdit \/ Finish

\* a later call of chad_execute_plan, on the disk the earlier calls left; the
\* clock has not gone back
NextCall ==
    /\ pc = "done"
    /\ req.later # <<>>
    /\ task' = Head(req.later)
    /\ req' = [req EXCEPT !.later = Tail(@), !.earlier = Append(@, task)]
    /\ \E now \in Clock : now >= env.now /\ env' = [env EXCEPT !.now = now]
    /\ pc' = "start"
    /\ i' = 1
    /\ touched' = <<>>
    /\ edit_logs' = <<>>
    /\ report' = NoReport
    /\ exec_report' = NoExecReport
    /\ UNCHANGED <<fs, plan, artifacts, written, hist, jailVars, metaVars, notes, io>>

NextRead == Dispatch \/ RunTool

NextNotes == Dispatch \/ RunTool \/ NextCall

NextTask == Dispatch \/ RunTool \/ RunAnalysis \/ ApplyEdit \/ Finish

NextChat ==
    ApiChat \/ Dispatch \/ RunTool \/ RunAnalysis \/ ApplyEdit \/ Finish \/ ChatReply

NoCall == [called |-> FALSE, ok |-> FALSE, path |-> <<>>]

\* one call of _resolve_in_project_jail(rq)
ResolveCall ==
    /\ ~rs.called
    /\ rs' = [called |-> TRUE] @@ ResolveInProjectJail(rq)
    /\ UNCHANGED <<rq, runVars, taskVars, metaVars>>

NextJail == ResolveCall

----------------------------------------------------------------------------
(* Inputs *)

Edit(file, op, content) == [file |-> file, operation |-> op, content |-> content]

\* the tree before the run: a.txt "a\n", m.py with a non-ASCII line, no new.txt
InitFs ==
    (<<"jail", "a.txt">> :> File(<<97, 10>>))
    @@ (<<"jail", "m.py">> :> File(<<Pound, 10, 97, 10>>))
    @@ (<<"jail", "ro.txt">> :> File(<<97, 10>>))
    @@ (<<"jail", "new.txt">> :> Absent)
    @@ (<<"etc", "passwd">> :> File(<<97, 10>>))
    @@ (<<"etc", "shadow">> :> Absent)

Ops == {"create_or_overwrite_file", "append_to_bottom", "prepend_comment", "delete_file"}

InJailFiles ==
    { Path(FALSE, <<"a.txt">>), Path(FALSE, <<"m.py">>), Path(FALSE, <<"new.txt">>),
      Path(FALSE, <<"ro.txt">>), Path(FALSE, <<"sub">>), Path(FALSE, <<"ln">>),
      Path(FALSE, <<"sub", "..", "a.txt">>) }

EscapingFiles ==
    { Path(FALSE, <<"..", "etc", "passwd">>), Path(TRUE, <<"etc", "passwd">>),
      Path(FALSE, <<"link", "passwd">>), Path(FALSE, <<"..", "etc", "shadow">>) }

Hello == <<104, 10>>

PathEdits ==
    {Edit(f, op, Hello) : f \in InJailFiles \cup EscapingFiles, op \in Ops}
    \cup {Edit(Path(FALSE, <<>>), "create_or_overwrite_file", Hello),
          Edit(Path(FALSE, <<>>), "", Hello),
          Edit(Path(FALSE, <<"a.txt">>), "", Hello),
          Edit(Path(FALSE, <<"..", "etc", "passwd">>), "", Hello)}
    \cup {Edit(f, "create_or_overwrite_file", <<104, VT, 10>>) :
             f \in {Path(FALSE, <<"a.txt">>), Path(FALSE, <<"m.py">>)}}

RECURSIVE SeqsUpTo(_, _)
SeqsUpTo(S, n) ==
    IF n = 0 THEN {<<>>}
    ELSE LET R == SeqsUpTo(S, n - 1)
         IN R \cup {Append(s, x) : s \in {t \in R : Len(t) = n - 1}, x \in S}

\* the environment of a default installation: no ENV_PROJECT_JAIL, no SMTP_*;
\* refactored: the request is served by chad/executor.py instead of app.py;
\* now: the reading of the clock
DefaultEnv ==
    [jail_env |-> FALSE, to |-> "", test_to |-> "", host |-> "", from |-> "",
     user |-> "", port |-> "", smtp_up |-> TRUE, refactored |-> FALSE, now |-> 0]

NoNotes == [n \in NoteNames |-> Absent]
NoIo == [reads |-> {}, writes |-> {}, sent |-> <<>>, ran |-> {}]
\* no chat request: chad_execute_plan is called directly
NoReq ==
    [message |-> <<>>, api_key |-> FALSE,
     reply |-> [ok |-> FALSE, task_type |-> "", analysis_file |-> Path(FALSE, <<>>),
                edits |-> <<>>, tool |-> NoTool],
     refined |-> [ok |-> FALSE, edits |-> <<>>],
     tools_enabled |-> TRUE, ui |-> "", earlier |-> <<>>, later |-> <<>>]

\* a codemod task already past the dispatch, in a default installation
CodemodOnly ==
    /\ task = [type |-> "codemod", analysis_file |-> Path(FALSE, <<>>), tool |-> NoTool]
    /\ env = DefaultEnv
    /\ notes = NoNotes
    /\ io = NoIo
    /\ exec_report = NoExecReport
    /\ req = NoReq

InitRun ==
    /\ i = 1
    /\ pc = "loop"
    /\ touched = <<>>
    /\ edit_logs = <<>>
    /\ report = NoReport
    /\ artifacts = {}
    /\ written = {}
    /\ hist = <<>>
    /\ CodemodOnly

NoJailCall == rq = Path(FALSE, <<>>) /\ rs = NoCall

\* no request is being given an id
Procs == {1, 2}
Idle == [pc |-> "idle", current |-> 0, new_val |-> 0, calls |-> 0]
NoSeq ==
    /\ seq_file = Absent
    /\ callers = [p \in Procs |-> Idle]
    /\ issued = <<>>
    /\ user_txt = <<>>

\* the files below ROOT_DIR before any self-improvement run: two text files
\* (one with CRLF line ends), one file that is not UTF-8, one path that does
\* not exist, and the directory pkg holding one file
TextFile(text) == [kind |-> "text", text |-> text]
BytesFile == [kind |-> "bytes", text |-> <<>>]
Missing == [kind |-> "missing", text |-> <<>>]

InitRoot ==
    [rel \in {"a.py", "crlf.py", "bin.dat", "new.py", "pkg/m.py"} |->
        CASE rel = "a.py" -> TextFile(<<97, LF>>)
          [] rel = "crlf.py" -> TextFile(<<97, CR, LF>>)
          [] rel = "bin.dat" -> BytesFile
          [] rel = "new.py" -> Missing
          [] OTHER -> TextFile(<<109, LF>>)]

RootDirs == {"pkg"}

NoSummary == [success |-> FALSE, attempts |-> <<>>, last_error |-> ""]

\* run_ticket_with_tests is not running
NoTicket ==
    /\ ticket = [safe_paths |-> <<>>, max_attempts |-> 0]
    /\ root_dir = InitRoot
    /\ tpc = "idle"
    /\ attempt = 0
    /\ snap = <<>>
    /\ summary = NoSummary
    /\ tlog = <<>>

\* cmd_run_queue is not running and data/queue holds no *.json file
NoQueue ==
    /\ queue = <<>>
    /\ items = <<>>
    /\ qpc = "idle"
    /\ qargs = [retries |-> 0, keep_failed |-> FALSE, run |-> 0]
    /\ qlog = <<>>

NoMeta == NoSeq /\ NoTicket /\ NoQueue

\* any plan of at most MaxEdits edits over the path inputs
Init ==
    /\ fs = InitFs
    /\ plan \in SeqsUpTo(PathEdits, MaxEdits)
    /\ InitRun
    /\ NoJailCall
    /\ NoMeta

Spec == Init /\ [][Next]_vars

\* Text inputs: one edit applied twice in a row to a file of arbitrary content
Alphabet == {97, LF, CR, VT, Pound, 126}
Texts == TextsOver(Alphabet, MaxLen)
TextOps == {"create_or_overwrite_file", "append_to_bottom", "prepend_comment"}
TextTargets == {"a.txt", "m.py"}

InitText ==
    /\ \E name \in TextTargets, original \in Texts, op \in TextOps, content \in Texts :
          /\ fs = [InitFs EXCEPT ![<<"jail", name>>] = File(original)]
          /\ plan = <<Edit(Path(FALSE, <<name>>), op, content),
                      Edit(Path(FALSE, <<name>>), op, content)>>
    /\ InitRun
    /\ NoJailCall
    /\ NoMeta

SpecText == InitText /\ [][Next]_vars

\* Resolver inputs: every path string of at most MaxSegs segments
Segments == {"..", ".", "a.txt", "sub", "link", "ln", "etc", "passwd"}

InitJail ==
    /\ fs = InitFs
    /\ plan = <<>>
    /\ InitRun
    /\ rq \in {Path(abs, segs) : abs \in BOOLEAN, segs \in SeqsUpTo(Segments, MaxSegs)}
    /\ rs = NoCall
    /\ NoMeta

SpecJail == InitJail /\ [][NextJail]_vars

\* Control-character inputs: one edit whose content may hold SOH (code point 1)
\* or a vertical tab, on the files of the initial tree
CtlAlphabet == {97, LF, VT, 1}

InitCtl ==
    /\ fs = InitFs
    /\ \E name \in TextTargets, op \in TextOps, content \in TextsOver(CtlAlphabet, MaxLen) :
          plan = <<Edit(Path(FALSE, <<name>>), op, content)>>
    /\ InitRun
    /\ NoJailCall
    /\ NoMeta

SpecCtl == InitCtl /\ [][Next]_vars

\* prepend_comment inputs: files with and without a shebang line and a final
\* newline, contents that are and are not a triple-quote block
Docstring == <<34, 34, 34, 100, 34, 34, 34>>
ShebangLine == <<35, 33, 120>>

PrependOriginals ==
    {<<>>, <<97>>, <<97, LF>>, <<97, LF, 98, LF>>,
     ShebangLine, ShebangLine \o <<LF>>, ShebangLine \o <<LF, 97>>,
     ShebangLine \o <<LF, 97, LF>>, ShebangLine \o <<LF, 97, LF, 98, LF>>}

PrependContents ==
    {Docstring, <<32>> \o Docstring, <<39, 39, 39, 100, 39, 39, 39>>,
     <<99>>, <<99, LF, 100>>, <<34, 34, 100>>}

InitPrepend ==
    /\ \E name \in {"a.txt", "m.py", "x.js"}, original \in PrependOriginals,
          content \in PrependContents :
          /\ fs = [(InitFs @@ (<<"jail", "x.js">> :> Absent))
                      EXCEPT ![<<"jail", name>>] = File(original)]
          /\ plan = <<Edit(Path(FALSE, <<name>>), "prepend_comment", content)>>
    /\ InitRun
    /\ NoJailCall
    /\ NoMeta

SpecPrepend == InitPrepend /\ [][Next]_vars

\* Task inputs: any task type, with edits, an analysis file and a tool call
MaxTitle == 3    \* longest note title (SpecTask)

TaskTypes == {"codemod", "tool", "analysis", "chat", "refactor", "(missing)"}

TaskEdits ==
    {Edit(Path(FALSE, <<"a.txt">>), "append_to_bottom", Hello),
     Edit(Path(FALSE, <<"..", "etc", "passwd">>), "create_or_overwrite_file", Hello)}

ToolPaths ==
    {Path(FALSE, <<>>), Path(FALSE, <<"a.txt">>), Path(FALSE, <<"sub">>),
     Path(FALSE, <<"new.txt">>), Path(FALSE, <<"..", "etc", "passwd">>),
     Path(TRUE, <<"etc", "passwd">>), Path(FALSE, <<"link", "passwd">>),
     Path(FALSE, <<NulName>>), Path(FALSE, <<LongName>>), Path(FALSE, <<"..", LongName>>)}

\* the paths an analysis task names
AnalysisPaths ==
    {Path(FALSE, <<>>), Path(FALSE, <<"a.txt">>), Path(FALSE, <<"sub">>),
     Path(FALSE, <<"new.txt">>), Path(FALSE, <<"..", "etc", "passwd">>),
     Path(TRUE, <<"etc", "passwd">>), Path(FALSE, <<"link", "passwd">>)}

Tool(name, args) == [name |-> name, args |-> args]

NoArgs == NoTool.args

TitleAlphabet == {84, 116, 47, 46, 32}

PathTools ==
    {Tool(name, [NoArgs EXCEPT !.path = p, !.recursive = r]) :
        name \in {"list_files", "read_file", "run_python_script"}, p \in ToolPaths, r \in BOOLEAN}

NoteTools ==
    {Tool(name, [NoArgs EXCEPT !.title = t, !.content = c]) :
        name \in {"create_markdown_note", "append_to_markdown_note"},
        t \in TextsOver(TitleAlphabet, MaxTitle), c \in {<<104>>, Hello}}

EmailTools ==
    {Tool("send_email", [NoArgs EXCEPT !.to = to, !.att_given = a[1], !.attachments = a[2]]) :
        to \in {"", "caller@x"},
        a \in {<<FALSE, <<>> >>, <<TRUE, <<>> >>,
               <<TRUE, <<Path(FALSE, <<"a.txt">>), Path(FALSE, <<"..", "etc", "passwd">>)>> >>,
               <<TRUE, <<Path(FALSE, <<"sub">>)>> >>}}

OtherTools ==
    {Tool("get_current_datetime", NoArgs), Tool("rm_rf", NoArgs), Tool(SurrogateName, NoArgs),
     NoTool}

\* the SMTP_* settings a send_email call can meet
SmtpEnvs ==
    {[DefaultEnv EXCEPT !.to = to, !.test_to = tt, !.host = h, !.from = fr,
                        !.user = u, !.port = p, !.smtp_up = up] :
        to \in {"", "to@srv", " to@srv "}, tt \in {"", "test@srv"},
        h \in {"", "smtp.srv"}, fr \in {"", "from@srv"}, u \in {"", "user@srv"},
        p \in {"", "587", "abc"}, up \in BOOLEAN}

\* chad_execute_plan is entered with the plan; nothing has run yet
InitExec ==
    /\ fs = InitFs
    /\ i = 1
    /\ touched = <<>>
    /\ edit_logs = <<>>
    /\ report = NoReport
    /\ artifacts = {}
    /\ written = {}
    /\ hist = <<>>
    /\ io = NoIo
    /\ exec_report = NoExecReport
    /\ NoJailCall
    /\ NoMeta

\* calls of the note tools, one after the other
NoteTitles == {<<>>, <<116>>, <<32, 84>>, <<116, 47>>, <<47>>}

NoteCalls ==
    {Task("tool", Path(FALSE, <<>>), Tool(name, [NoArgs EXCEPT !.title = t, !.content = c])) :
        name \in {"create_markdown_note", "append_to_markdown_note"},
        t \in NoteTitles, c \in {<<104>>, Hello}}

InitNotes ==
    /\ InitExec
    /\ pc = "start"
    /\ plan = <<>>
    /\ env = DefaultEnv
    /\ notes = NoNotes
    /\ \E calls \in SeqsUpTo(NoteCalls, 2) :
          /\ calls # <<>>
          /\ task = Head(calls)
          /\ req = [NoReq EXCEPT !.later = Tail(calls)]

SpecNotes == InitNotes /\ [][NextNotes]_vars

\* read_file inputs: a file of up to MaxRead characters and a character budget
MaxRead == 3      \* longest file read (SpecRead)
MaxBudget == 3    \* largest explicit max_chars, and its negative (SpecRead)

ReadAlphabet == {97, LF, CR}

\* as InitExec, the file a.txt holding any text of up to MaxRead characters
InitReadBase ==
    /\ fs \in {[InitFs EXCEPT ![<<"jail", "a.txt">>] = File(t)] : t \in TextsOver(ReadAlphabet, MaxRead)}
    /\ i = 1
    /\ touched = <<>>
    /\ edit_logs = <<>>
    /\ report = NoReport
    /\ artifacts = {}
    /\ written = {}
    /\ hist = <<>>
    /\ io = NoIo
    /\ exec_report = NoExecReport
    /\ NoJailCall
    /\ NoMeta

InitTask ==
    /\ InitExec
    /\ pc = "start"
    /\ req = NoReq
    /\ plan \in SeqsUpTo(TaskEdits, MaxEdits)
    /\ \E jail_env \in BOOLEAN :
          \/ /\ task \in {[type |-> ty, analysis_file |-> af, tool |-> tl] :
                            ty \in TaskTypes \ {"tool"},
                            af \in AnalysisPaths,
                            tl \in {NoTool,
                                    Tool("read_file", [NoArgs EXCEPT !.path = Path(FALSE, <<"a.txt">>)])}}
             /\ env = [DefaultEnv EXCEPT !.jail_env = jail_env]
             /\ notes = NoNotes
          \/ /\ task \in {[type |-> "tool", analysis_file |-> Path(FALSE, <<"a.txt">>), tool |-> tl] :
                            tl \in PathTools \cup OtherTools}
             /\ env \in {[DefaultEnv EXCEPT !.jail_env = jail_env, !.refactored = rf] :
                           rf \in BOOLEAN}
             /\ notes = NoNotes
          \/ /\ task \in {[type |-> "tool", analysis_file |-> Path(FALSE, <<>>), tool |-> tl] :
                            tl \in NoteTools}
             /\ plan = <<>>
             /\ env = [DefaultEnv EXCEPT !.jail_env = jail_env]
             /\ notes \in {NoNotes, [NoNotes EXCEPT !["t.md"] = File(<<97>>)]}
          \/ /\ task \in {[type |-> "tool", analysis_file |-> Path(FALSE, <<>>), tool |-> tl] :
                            tl \in EmailTools}
             /\ plan = <<>>
             /\ env \in {[e EXCEPT !.jail_env = jail_env] : e \in SmtpEnvs}
             /\ notes \in {NoNotes, [NoNotes EXCEPT !["t.md"] = File(<<97>>)]}

SpecTask == InitTask /\ [][NextTask]_vars

InitRead ==
    /\ InitReadBase
    /\ pc = "start"
    /\ req = NoReq
    /\ plan = <<>>
    /\ env = DefaultEnv
    /\ notes = NoNotes
    /\ \E p \in {Path(FALSE, <<"a.txt">>), Path(FALSE, <<"new.txt">>)},
          n \in (-MaxBudget..MaxBudget) \cup {NoArgs.max_chars} :
          task = Task("tool", Path(FALSE, <<>>),
                      Tool("read_file", [NoArgs EXCEPT !.path = p, !.max_chars = n]))

SpecRead == InitRead /\ [][NextRead]_vars

\* Chat inputs: a request, with or without the "#bob no-tools" prefix, and
\* whatever the planning model answers to it
Hi == <<104, 105>>

ChatMessages ==
    {<<>>, Hi, NoToolsPrefix, NoToolsPrefix \o <<32>> \o Hi,
     <<32, 35, 66, 79, 66, 32, 78, 79, 45, 84, 79, 79, 76, 83>> \o Hi \o <<10>>,
     <<35, 98, 111, 98, 32, 110, 111, 45, 116, 111, 111, 108>> \o <<32>> \o Hi}

Reply(ok, task_type, analysis_file, edits, tool) ==
    [ok |-> ok, task_type |-> task_type, analysis_file |-> analysis_file,
     edits |-> edits, tool |-> tool]

Replies ==
    {NoReq.reply}
    \cup {Reply(TRUE, ty, af, ed, tl) :
            ty \in TaskTypes,
            af \in {Path(FALSE, <<>>), Path(FALSE, <<"a.txt">>)},
            ed \in SeqsUpTo(TaskEdits, 1),
            tl \in {NoTool,
                    Tool("read_file", [NoArgs EXCEPT !.path = Path(FALSE, <<"a.txt">>)]),
                    Tool("create_markdown_note", [NoArgs EXCEPT !.title = <<116>>, !.content = Hello]),
                    Tool("send_email", NoArgs)}}

InitChat ==
    /\ InitExec
    /\ pc = "chat"
    /\ task = Task("", Path(FALSE, <<>>), NoTool)
    /\ plan = <<>>
    /\ notes = NoNotes
    /\ env \in {DefaultEnv,
                [DefaultEnv EXCEPT !.to = "to@srv", !.host = "smtp.srv", !.from = "from@srv"]}
    /\ \E m \in ChatMessages, key \in BOOLEAN, r \in Replies,
          rf \in {NoReq.refined, [ok |-> TRUE, edits |-> <<>>],
                  [ok |-> TRUE, edits |-> <<Edit(Path(FALSE, <<"a.txt">>), "prepend_comment", Hello)>>]} :
          req = [NoReq EXCEPT !.message = m, !.api_key = key, !.reply = r, !.refined = rf]

SpecChat == InitChat /\ [][NextChat]_vars

----------------------------------------------------------------------------
(* Message ids: next_message_id and the requests that are given one *)

MaxCalls == 2    \* most requests one thread or process handles (SpecSeq)

\* str(n), n >= 0
RECURSIVE Str(_)
Str(n) == IF n < 10 THEN <<48 + n>> ELSE Str(n \div 10) \o <<48 + (n % 10)>>

IsDigits(text) == text # <<>> /\ \A k \in 1..Len(text) : text[k] \in 48..57

\* int(text) of a text of ASCII digits
RECURSIVE ParseInt(_)
ParseInt(text) ==
    IF text = <<>> THEN 0
    ELSE 10 * ParseInt(SubSeq(text, 1, Len(text) - 1)) + (text[Len(text)] - 48)

\* `current` as next_message_id reads it: 0 when the sequence file is missing
\* or empty, or when int() raises ValueError
Current(f) ==
    IF ~f.exists THEN 0
    ELSE LET text == LStrip(RStrip(f.text))
             digits == IF text = <<>> THEN <<48>> ELSE text
         IN IF IsDigits(digits) THEN ParseInt(digits) ELSE 0

\* f"{new_val:05d}"
RECURSIVE ZeroPad(_, _)
ZeroPad(text, width) ==
    IF Len(text) >= width THEN text ELSE ZeroPad(<<48>> \o text, width)

IdStr(new_val) == ZeroPad(Str(new_val), 5)

\* date.today().strftime("%Y-%m-%d") on day `now` of the clock
Today(now) == <<50, 48, 50, 53, 45, 49, 49, 45, 50, 51 + now>>

\* f"{id_str}_{today}"
Base(new_val, now) == IdStr(new_val) \o <<95>> \o Today(now)

\* the message of the calls-th request of p
UserText(p, calls) == <<p, calls>>

\* next_message_id reads the sequence file
ReadSeq(p) ==
    /\ callers[p].pc = "idle"
    /\ callers[p].calls < MaxCalls
    /\ callers' = [callers EXCEPT ![p].pc = "open", ![p].current = Current(seq_file)]
    /\ UNCHANGED <<seq_file, issued, user_txt, execVars, ticketVars, queueVars>>

\* write_text opens the sequence file for writing, which empties it
OpenSeq(p) ==
    /\ callers[p].pc = "open"
    /\ seq_file' = File(<<>>)
    /\ callers' = [callers EXCEPT ![p].pc = "write", ![p].new_val = callers[p].current + 1]
    /\ UNCHANGED <<issued, user_txt, execVars, ticketVars, queueVars>>

\* write_text writes str(new_val); next_message_id returns
WriteSeq(p) ==
    /\ callers[p].pc = "write"
    /\ seq_file' = File(Str(callers[p].new_val))
    /\ callers' = [callers EXCEPT ![p].pc = "user"]
    /\ issued' = Append(issued, [proc |-> p, call |-> callers[p].calls + 1,
                                    new_val |-> callers[p].new_val,
                                    id_str |-> IdStr(callers[p].new_val),
                                    base |-> Base(callers[p].new_val, env.now)])
    /\ UNCHANGED <<user_txt, execVars, ticketVars, queueVars>>

\* the caller writes <base>.user.txt
WriteUser(p) ==
    /\ callers[p].pc = "user"
    /\ LET base == Base(callers[p].new_val, env.now)
       IN user_txt' = [b \in DOMAIN user_txt \cup {base} |->
                          IF b = base THEN UserText(p, callers[p].calls + 1) ELSE user_txt[b]]
    /\ callers' = [callers EXCEPT ![p].pc = "idle", ![p].calls = @ + 1]
    /\ UNCHANGED <<seq_file, issued, execVars, ticketVars, queueVars>>

NextSeq == \E p \in Procs : ReadSeq(p) \/ OpenSeq(p) \/ WriteSeq(p) \/ WriteUser(p)

\* a fresh data directory, or one whose sequence file holds 9 or 99999
InitSeq ==
    /\ fs = InitFs
    /\ plan = <<>>
    /\ InitRun
    /\ rq = Path(FALSE, <<>>)
    /\ rs = NoCall
    /\ seq_file \in {Absent, File(<<57>>), File(<<57, 57, 57, 57, 57, LF>>)}
    /\ callers = [p \in Procs |-> Idle]
    /\ issued = <<>>
    /\ user_txt = <<>>
    /\ NoTicket
    /\ NoQueue

SpecSeq == InitSeq /\ [][NextSeq]_vars

----------------------------------------------------------------------------
(* Self-improvement: run_ticket_with_tests, its snapshot and its rollback *)

MaxAttempts == 2   \* largest max_attempts (--retries) of a run (SpecTicket)
MaxPaths == 2      \* most entries of ticket.safe_paths (SpecTicket)

\* p.rglob("*") restricted to files, as paths relative to ROOT_DIR
Rglob(rel) == IF rel = "pkg" THEN {"pkg/m.py"} ELSE {}

\* p.exists() / p.is_file() for p = ROOT_DIR / rel
RootExists(r, rel) == rel \in RootDirs \/ (rel \in DOMAIN r /\ r[rel].kind # "missing")
RootIsFile(r, rel) == rel \in DOMAIN r /\ r[rel].kind # "missing"

\* read_text(encoding="utf-8") inside try: the decoded text with its line ends
\* translated to LF, or None when the bytes are not UTF-8
NoneValue == [kind |-> "none", text |-> <<>>]
SnapText(file) ==
    IF file.kind = "text"
    THEN TextFile(ReplaceChar(ReplaceCRLF(file.text), CR, <<LF>>))
    ELSE NoneValue

\* what one entry of rel_paths adds to the snapshot
SnapshotOf(r, rel) ==
    IF ~RootExists(r, rel) THEN [x \in {rel} |-> NoneValue]
    ELSE IF rel \in RootDirs THEN [sub \in Rglob(rel) |-> SnapText(r[sub])]
    ELSE [x \in {rel} |-> SnapText(r[rel])]

\* _snapshot_files(rel_paths): later entries replace earlier ones
RECURSIVE SnapshotFiles(_, _)
SnapshotFiles(r, rel_paths) ==
    IF rel_paths = <<>> THEN <<>>
    ELSE LET n == Len(rel_paths)
         IN SnapshotOf(r, rel_paths[n]) @@ SnapshotFiles(r, SubSeq(rel_paths, 1, n - 1))

\* _restore_files(snapshot): a None entry unlinks the file if there is one, any
\* other entry writes the recorded text
RestoreFiles(r, snapshot) ==
    [rel \in DOMAIN r |->
        IF rel \notin DOMAIN snapshot THEN r[rel]
        ELSE IF snapshot[rel].kind = "none"
             THEN (IF RootIsFile(r, rel) THEN Missing ELSE r[rel])
             ELSE TextFile(snapshot[rel].text)]

\* the text an edit of the plan leaves in a file
NewCode == <<110, LF>>

\* the files the edits of run_self_improvement_prompt can reach: those named
\* in ticket.safe_paths, when they are text files or do not exist yet
Editable(r, safe_paths) ==
    {rel \in DOMAIN r : /\ \E k \in 1..Len(safe_paths) : safe_paths[k] = rel
                         /\ r[rel].kind # "bytes"}

Event(ev) == [ev |-> ev, attempt |-> attempt, root |-> root_dir]

\* for attempt in range(1, max_attempts + 1): snap = _snapshot_files(...)
Snapshot ==
    /\ tpc = "loop"
    /\ attempt < ticket.max_attempts
    /\ attempt' = attempt + 1
    /\ snap' = SnapshotFiles(root_dir, ticket.safe_paths)
    /\ tpc' = "prompt"
    /\ tlog' = Append(tlog, [Event("snapshot") EXCEPT !.attempt = attempt + 1])
    /\ UNCHANGED <<ticket, root_dir, summary, execVars, seqVars, queueVars>>

\* run_self_improvement_prompt: the plan's edits on the safe paths are applied
\* by chad_execute_plan, which may also raise
RunSelfImprovementPrompt ==
    /\ tpc = "prompt"
    /\ \E edited \in SUBSET Editable(root_dir, ticket.safe_paths), raised \in BOOLEAN :
          /\ root_dir' = [rel \in DOMAIN root_dir |->
                         IF rel \in edited THEN TextFile(NewCode) ELSE root_dir[rel]]
          /\ tpc' = IF raised THEN "raised" ELSE "pytest"
          /\ tlog' = Append(tlog, [Event(IF raised THEN "raised" ELSE "prompt")
                                      EXCEPT !.root = root_dir'])
    /\ UNCHANGED <<ticket, attempt, snap, summary, execVars, seqVars, queueVars>>

\* variant: no break when the tests pass
RunPytestNoBreak ==
    /\ tpc = "pytest"
    /\ \E tests_ok \in BOOLEAN :
          /\ summary' = [success |-> tests_ok \/ summary.success,
                          attempts |-> Append(summary.attempts,
                                              [attempt |-> attempt, tests_ok |-> tests_ok]),
                          last_error |-> IF tests_ok THEN summary.last_error
                                         ELSE "(pytest output)"]
          /\ tpc' = IF tests_ok THEN "loop" ELSE "restore"
          /\ tlog' = Append(tlog, Event(IF tests_ok THEN "pass" ELSE "fail"))
    /\ UNCHANGED <<ticket, root_dir, attempt, snap, execVars, seqVars, queueVars>>

\* _run_pytest and what follows it in the iteration, up to the break or to
\* the call of _restore_files
RunPytest ==
    /\ tpc = "pytest"
    /\ \E tests_ok \in BOOLEAN :
          /\ summary' = [success |-> tests_ok,
                          attempts |-> Append(summary.attempts,
                                              [attempt |-> attempt, tests_ok |-> tests_ok]),
                          last_error |-> IF tests_ok THEN summary.last_error
                                         ELSE "(pytest output)"]
          /\ tpc' = IF tests_ok THEN "returned" ELSE "restore"
          /\ tlog' = Append(tlog, Event(IF tests_ok THEN "pass" ELSE "fail"))
    /\ UNCHANGED <<ticket, root_dir, attempt, snap, execVars, seqVars, queueVars>>

\* _restore_files(snap), then the next iteration
Restore ==
    /\ tpc = "restore"
    /\ root_dir' = RestoreFiles(root_dir, snap)
    /\ tpc' = "loop"
    /\ tlog' = Append(tlog, [Event("restore") EXCEPT !.root = root_dir'])
    /\ UNCHANGED <<ticket, attempt, snap, summary, execVars, seqVars, queueVars>>

\* the loop is exhausted: return {"success": ..., "attempts": ..., "last_error": ...}
ReturnSummary ==
    /\ tpc = "loop"
    /\ attempt >= ticket.max_attempts
    /\ tpc' = "returned"
    /\ tlog' = Append(tlog, Event("return"))
    /\ UNCHANGED <<ticket, root_dir, attempt, snap, summary, execVars, seqVars, queueVars>>

NextTicket == Snapshot \/ RunSelfImprovementPrompt \/ RunPytest \/ Restore \/ ReturnSummary

SafeRels == {"a.py", "crlf.py", "bin.dat", "new.py", "pkg"}

\* run_ticket_with_tests is entered with a ticket and max_attempts
InitTicket ==
    /\ fs = InitFs
    /\ plan = <<>>
    /\ InitRun
    /\ NoJailCall
    /\ NoSeq
    /\ ticket \in {[safe_paths |-> sp, max_attempts |-> m] :
                      sp \in SeqsUpTo(SafeRels, MaxPaths), m \in 0..MaxAttempts}
    /\ root_dir = InitRoot
    /\ tpc = "loop"
    /\ attempt = 0
    /\ snap = <<>>
    /\ summary = NoSummary
    /\ tlog = <<>>
    /\ NoQueue

SpecTicket == InitTicket /\ [][NextTicket]_vars

\* pytest is run with a timeout and the planner's request returns: every step
\* of the loop is eventually taken
FairTicket == InitTicket /\ [][NextTicket]_vars /\ WF_vars(NextTicket)

----------------------------------------------------------------------------
(* Self-improvement: cmd_run_queue and the queue items in data/queue *)

MaxRuns == 2     \* most invocations of run_queue (SpecQueue)

JsonSuffix == <<46, 106, 115, 111, 110>>
DoneSuffix == <<46, 100, 111, 110, 101>> \o JsonSuffix
FailedSuffix == <<46, 102, 97, 105, 108, 101, 100>> \o JsonSuffix

\* qp.stem: the file name without its last suffix
Stem(name) ==
    LET dots == {k \in 2..Len(name) : name[k] = 46}
    IN IF dots = {} THEN name
       ELSE SubSeq(name, 1, (CHOOSE k \in dots : \A j \in dots : j <= k) - 1)

\* a < b as Python compares the two names
RECURSIVE NameLess(_, _)
NameLess(a, b) ==
    IF b = <<>> THEN FALSE
    ELSE IF a = <<>> THEN TRUE
    ELSE IF Head(a) # Head(b) THEN Head(a) < Head(b)
    ELSE NameLess(Tail(a), Tail(b))

\* sorted(names)
RECURSIVE Sorted(_)
Sorted(names) ==
    IF names = {} THEN <<>>
    ELSE LET first == CHOOSE n \in names : \A m \in names \ {n} : NameLess(n, m)
         IN <<first>> \o Sorted(names \ {first})

\* qp.rename(target): the file gets the new name, replacing a file of that name
Rename(q, qp, target) ==
    [n \in (DOMAIN q \ {qp}) \cup {target} |-> IF n = target THEN q[qp] ELSE q[n]]

\* qp.unlink()
Unlink(q, qp) == [n \in DOMAIN q \ {qp} |-> q[n]]

Retries == {0, 1}

\* cmd_run_queue starts: the self_improvement items among sorted(glob("*.json"))
RunQueue ==
    /\ qpc = "idle"
    /\ qargs.run < MaxRuns
    /\ \E retries \in Retries, keep_failed \in BOOLEAN :
          qargs' = [retries |-> retries, keep_failed |-> keep_failed, run |-> qargs.run + 1]
    /\ LET found == Sorted({n \in DOMAIN queue : queue[n].kind = "self_improvement"})
       IN /\ items' = found
          /\ qpc' = IF found = <<>> THEN "idle" ELSE "items"
    /\ UNCHANGED <<queue, qlog, execVars, seqVars, ticketVars>>

\* the loop takes the next item, builds its ticket and calls run_ticket_with_tests
RunItem ==
    /\ qpc = "items"
    /\ tpc = "idle"
    /\ items # <<>>
    /\ ticket' = [safe_paths |-> queue[Head(items)].safe_paths, max_attempts |-> qargs.retries]
    /\ tpc' = "loop"
    /\ attempt' = 0
    /\ snap' = <<>>
    /\ summary' = NoSummary
    /\ tlog' = <<>>
    /\ qlog' = Append(qlog, [name |-> Head(items), run |-> qargs.run, outcome |-> "running"])
    /\ UNCHANGED <<root_dir, queue, items, qpc, qargs, execVars, seqVars>>

\* run_ticket_with_tests has returned: the item is renamed or removed
FinishItem ==
    /\ qpc = "items"
    /\ tpc = "returned"
    /\ LET qp == Head(items)
           outcome == IF summary.success THEN "done"
                      ELSE IF qargs.keep_failed THEN "failed" ELSE "deleted"
       IN /\ queue' = CASE outcome = "done" -> Rename(queue, qp, Stem(qp) \o DoneSuffix)
                         [] outcome = "failed" -> Rename(queue, qp, Stem(qp) \o FailedSuffix)
                         [] OTHER -> Unlink(queue, qp)
          /\ qlog' = [qlog EXCEPT ![Len(qlog)].outcome = outcome]
    /\ items' = Tail(items)
    /\ tpc' = "idle"
    /\ UNCHANGED <<ticket, root_dir, attempt, snap, summary, tlog, qpc, qargs,
                   execVars, seqVars>>

\* run_ticket_with_tests has raised: cmd_run_queue ends with that exception
AbortQueue ==
    /\ qpc = "items"
    /\ tpc = "raised"
    /\ qlog' = [qlog EXCEPT ![Len(qlog)].outcome = "raised"]
    /\ items' = <<>>
    /\ qpc' = "idle"
    /\ tpc' = "idle"
    /\ UNCHANGED <<ticket, root_dir, attempt, snap, summary, tlog, queue, qargs,
                   execVars, seqVars>>

\* every item has been run: cmd_run_queue returns
EndQueue ==
    /\ qpc = "items"
    /\ tpc = "idle"
    /\ items = <<>>
    /\ qpc' = "idle"
    /\ UNCHANGED <<queue, items, qargs, qlog, execVars, seqVars, ticketVars>>

NextQueue ==
    \/ RunQueue \/ RunItem \/ FinishItem \/ AbortQueue \/ EndQueue
    \/ Snapshot \/ RunSelfImprovementPrompt \/ RunPytest \/ Restore \/ ReturnSummary

\* data/queue before the first run_queue: one or two self_improvement items
\* written by enqueue_self_improvement, and possibly a *.json file of another kind
QueueItem == [kind |-> "self_improvement", safe_paths |-> <<"a.py">>]
OtherJson == [kind |-> "other", safe_paths |-> <<>>]
Q1 == <<113, 49>> \o JsonSuffix
Q2 == <<113, 50>> \o JsonSuffix
PlanJson == <<112>> \o JsonSuffix

InitQueue ==
    /\ fs = InitFs
    /\ plan = <<>>
    /\ InitRun
    /\ NoJailCall
    /\ NoSeq
    /\ NoTicket
    /\ queue \in {[n \in {Q1} |-> QueueItem],
                   [n \in {Q1, Q2} |-> QueueItem],
                   [n \in {Q1, PlanJson} |-> IF n = Q1 THEN QueueItem ELSE OtherJson]}
    /\ items = <<>>
    /\ qpc = "idle"
    /\ qargs = [retries |-> 0, keep_failed |-> FALSE, run |-> 0]
    /\ qlog = <<>>

SpecQueue == InitQueue /\ [][NextQueue]_vars

----------------------------------------------------------------------------
(* What the claims speak about, read off the run *)

\* p is the jail root or a descendant of it
Inside(p) ==
    /\ Len(p) >= Len(PROJECT_ROOT)
    /\ \A k \in 1..Len(PROJECT_ROOT) : p[k] = PROJECT_ROOT[k]

\* the canonical path a path string denotes
Canonical(file_rel) == Resolve(JoinPath(PROJECT_ROOT, file_rel))

\* p as a path relative to the jail root
JailRelative(p) == Path(FALSE, [k \in 1..(Len(p) - Len(PROJECT_ROOT)) |-> p[k + Len(PROJECT_ROOT)]])

\* the tree, the log entries and the touched entries after / of the k-th handled edit
After(k) == IF k < Len(hist) THEN hist[k + 1].before ELSE fs
LogsOf(k) ==
    SubSeq(edit_logs, hist[k].nLogs + 1,
           IF k < Len(hist) THEN hist[k + 1].nLogs ELSE Len(edit_logs))
TouchedOf(k) ==
    SubSeq(touched, hist[k].nTouched + 1,
           IF k < Len(hist) THEN hist[k + 1].nTouched ELSE Len(touched))

Reasons(logs) == [k \in 1..Len(logs) |-> logs[k].reason]

\* the edit names an existing regular file inside the jail
OnRegularFile(k) ==
    LET e == hist[k].edit
    IN /\ ~FileMissing(e) /\ ~OpMissing(e)
       /\ Inside(Canonical(e.file))
       /\ Canonical(e.file) \in DOMAIN fs
       /\ hist[k].before[Canonical(e.file)].exists

DiskText(f, k) == f[Canonical(hist[k].edit.file)].text

----------------------------------------------------------------------------
(* C1: an edit whose file resolves outside the jail root changes no file,     *)
(* adds nothing to touched_files and (having an operation) is logged with     *)
(* "target path escapes project jail"; every file the edit loop writes is     *)
(* the jail root or below it, and no file outside the jail ever changes.      *)
C1_JailEscapeWritesNothing ==
    /\ \A k \in 1..Len(hist) :
          LET e == hist[k].edit
          IN (~FileMissing(e) /\ ~Inside(Canonical(e.file))) =>
                /\ After(k) = hist[k].before
                /\ TouchedOf(k) = <<>>
                /\ ~OpMissing(e) =>
                      LogsOf(k) = <<Entry(e.file, e.operation, "target path escapes project jail")>>
    /\ \A p \in written : Inside(p)
    /\ \A p \in DOMAIN fs : ~Inside(p) => fs[p] = InitFs[p]

\* an append through the symlink link -> /etc, whose target exists, was rejected,
\* and a later in-jail edit of the same plan was still written
C1_Witness ==
    /\ pc = "done"
    /\ Len(hist) = 2
    /\ hist[1].edit = Edit(Path(FALSE, <<"link", "passwd">>), "append_to_bottom", Hello)
    /\ Reasons(LogsOf(1)) = <<"target path escapes project jail">>
    /\ written = {<<"jail", "a.txt">>}

(* C2: the resolver returns None exactly when the canonical joined path is    *)
(* neither the root nor below it, otherwise that canonical path; the empty    *)
(* path is treated as "." (the root); the call changes nothing.               *)
C2_ResolverContract ==
    rs.called =>
        LET given == IF rq = Path(FALSE, <<>>) THEN Path(FALSE, <<".">>) ELSE rq
        IN /\ rs.ok <=> Inside(Canonical(given))
           /\ rs.ok => rs.path = Canonical(given)
           /\ rq = Path(FALSE, <<>>) => rs.ok /\ rs.path = PROJECT_ROOT
           /\ fs = InitFs /\ written = {} /\ artifacts = {}

\* a path without '..' that leaves the jail through a symlink was refused
C2_Witness ==
    /\ rs.called /\ ~rs.ok
    /\ rq = Path(FALSE, <<"link", "passwd">>)

(* C3: a create_or_overwrite_file or append_to_bottom edit whose in-jail      *)
(* target does not exist creates the file (overwrite: with the normalised     *)
(* content, logged "file overwritten with new content") and lists its         *)
(* jail-relative path in touched_files.                                       *)
C3_MissingTargetCreated ==
    \A k \in 1..Len(hist) :
        LET e == hist[k].edit
            t == Canonical(e.file)
        IN (/\ ~FileMissing(e)
            /\ e.operation \in {"create_or_overwrite_file", "append_to_bottom"}
            /\ Inside(t) /\ t \in DOMAIN fs
            /\ ~hist[k].before[t].exists) =>
               /\ After(k)[t].exists
               /\ TouchedOf(k) = <<JailRelative(t)>>
               /\ e.operation = "create_or_overwrite_file" =>
                     /\ After(k)[t].text = NormalizeNewlines(e.content)
                     /\ Reasons(LogsOf(k)) = <<"file overwritten with new content">>

\* the run applied one edit twice in a row to an existing regular in-jail file
AppliedTwice(op) ==
    /\ Len(hist) = 2
    /\ hist[1].edit = hist[2].edit
    /\ hist[1].edit.operation = op
    /\ OnRegularFile(1)

\* the k-th edit wrote its file and listed it
Wrote(k) == After(k) # hist[k].before /\ TouchedOf(k) # <<>>

\* the k-th edit was a logged no-op
NoOp(k, reason) ==
    /\ After(k) = hist[k].before
    /\ TouchedOf(k) = <<>>
    /\ LogsOf(k) # <<>>
    /\ LogsOf(k)[Len(LogsOf(k))].reason = reason

(* C4 as stated: the same overwrite applied twice to an existing target whose *)
(* content differs from the edit's content writes and touches on the first    *)
(* application and is a logged no-op on the second.                           *)
C4_OverwriteTwiceAsStated ==
    (AppliedTwice("create_or_overwrite_file")
        /\ DiskText(hist[1].before, 1) # hist[1].edit.content) =>
           /\ Wrote(1)
           /\ NoOp(2, "new content is identical to existing file")

(* C4 amended: the second application is always a logged no-op; the first     *)
(* writes and touches exactly when the text the edit computes (content after  *)
(* newline normalisation, control-character stripping and, for .py, the       *)
(* narration filter and the Unicode guard) differs from the normalised        *)
(* content of the file, and then leaves exactly that text on disk.            *)
C4_OverwriteIdempotent ==
    AppliedTwice("create_or_overwrite_file") =>
        LET t == Canonical(hist[1].edit.file)
            old == NormalizeNewlines(DiskText(hist[1].before, 1))
            new == OverwriteNewText(t, old, hist[1].edit.content).text
        IN /\ NoOp(2, "new content is identical to existing file")
           /\ Wrote(1) <=> new # old
           /\ new # old => DiskText(After(1), 1) = new
           /\ new = old => NoOp(1, "new content is identical to existing file")

\* content with a carriage return, on the .py target: written once, then a no-op
C4_Witness ==
    /\ AppliedTwice("create_or_overwrite_file")
    /\ hist[1].edit.file = Path(FALSE, <<"m.py">>)
    /\ \E k \in 1..Len(hist[1].edit.content) : hist[1].edit.content[k] = CR
    /\ Wrote(1)
    /\ NoOp(2, "new content is identical to existing file")

(* C5: the same append applied twice to an existing target touches the file   *)
(* only on the first application; the second leaves the file unchanged, logs  *)
(* a no-op and does not list the file.                                        *)
C5_AppendNeverDuplicates ==
    AppliedTwice("append_to_bottom") =>
        NoOp(2, "append produced no effective change")

(* C6: no failure of one edit is fatal: the run never raises, and the report  *)
(* is returned after every edit of the plan has been attempted.               *)
C6_NoEditFatal ==
    /\ pc # "crashed"
    /\ pc = "done" => Len(hist) = Len(plan)

(* C7: touched_files lists, in order, exactly the files written during the    *)
(* run: an edit adds an entry only if it changed a file, the entry is that    *)
(* file's path relative to the jail root (not absolute, not leaving the       *)
(* root), and the report carries this list.                                   *)
C7_TouchedOnlyWritten ==
    /\ \A k \in 1..Len(hist) :
          LET changed == {p \in DOMAIN fs : After(k)[p] # hist[k].before[p]}
          IN \/ changed = {} /\ TouchedOf(k) = <<>>
             \/ \E p \in changed :
                   /\ changed = {p}
                   /\ Inside(p)
                   /\ TouchedOf(k) = <<JailRelative(p)>>
    /\ \A j \in 1..Len(touched) :
          /\ ~touched[j].abs
          /\ \A n \in 1..Len(touched[j].segs) : touched[j].segs[n] \notin {"..", "."}
          /\ PROJECT_ROOT \o touched[j].segs \in written
    /\ pc = "done" => report.touched_files = touched

\* an edit through the in-jail symlink ln -> a.txt is listed as a.txt; the
\* skipped edit after it added nothing
C7_Witness ==
    /\ pc = "done"
    /\ Len(plan) = 2
    /\ plan[1].file = Path(FALSE, <<"ln">>)
    /\ plan[2].file = Path(FALSE, <<"..", "etc", "passwd">>)
    /\ report.touched_files = <<Path(FALSE, <<"a.txt">>)>>

IsWarning(entry) ==
    entry.reason \in
        {"new content contained suspicious control characters which were stripped",
         "resulting content contained suspicious control characters which were stripped"}

\* the log entry describes the edit
Describes(entry, e) ==
    /\ entry.file = IF FileMissing(e) THEN NonePath ELSE e.file
    /\ entry.operation = IF OpMissing(e) THEN "(none)" ELSE e.operation

(* C8 as stated: in every report len(edit_logs) = edits_requested and         *)
(* edit_logs[i] describes edits[i].                                           *)
C8_OneLogPerEditAsStated ==
    pc = "done" =>
        /\ Len(report.edit_logs) = report.edits_requested
        /\ \A k \in 1..Len(report.edit_logs) :
              k <= Len(plan) => Describes(report.edit_logs[k], plan[k])

(* C8 amended: every edit appends exactly one outcome entry, preceded by one  *)
(* warning entry when suspicious control characters were stripped; so in      *)
(* every report the outcome entries are one per edit, in edit order, each     *)
(* describing its edit, and each warning entry sits directly before the       *)
(* outcome entry of the same edit.                                            *)
C8_OneOutcomeLogPerEdit ==
    /\ \A k \in 1..Len(hist) :
          (k < Len(hist) \/ pc # "crashed") =>
             LET logs == LogsOf(k)
             IN /\ Len(logs) \in {1, 2}
                /\ ~IsWarning(logs[Len(logs)])
                /\ Len(logs) = 2 => IsWarning(logs[1])
                /\ \A j \in 1..Len(logs) : Describes(logs[j], hist[k].edit)
    /\ pc = "done" =>
          /\ report.edit_logs = edit_logs
          /\ report.edits_requested = Len(plan)
          /\ Len(SelectSeq(report.edit_logs, LAMBDA x : ~IsWarning(x))) = report.edits_requested

\* a report with one entry more than edits: the warning of a stripped edit
C8_Witness ==
    /\ pc = "done"
    /\ report.edits_requested = 2
    /\ Len(report.edit_logs) = 3
    /\ IsWarning(report.edit_logs[2])

(* C9: on an overwrite of a .py file, at every line index below the shorter   *)
(* of the old and new line counts, an original line with a non-ASCII          *)
(* character whose new line has none is on disk verbatim afterwards. The new  *)
(* lines are those of the cleaned content without its narration lines; the    *)
(* lines of a file are taken as the executor reads them (LF, CRLF or CR).     *)
C9_UnicodePreserved ==
    \A k \in 1..Len(hist) :
        (OnRegularFile(k)
            /\ hist[k].edit.operation = "create_or_overwrite_file"
            /\ PathSuffix(Canonical(hist[k].edit.file)) = ".py") =>
           LET old_lines == SplitLF(NormalizeNewlines(DiskText(hist[k].before, k)))
               new_lines == SplitLF(DropNarration(Cleaned(hist[k].edit.content).text))
               disk_lines == SplitLF(NormalizeNewlines(DiskText(After(k), k)))
           IN \A idx \in 1..Len(old_lines) :
                 (idx <= Len(new_lines)
                     /\ HasNonAscii(old_lines[idx])
                     /\ ~HasNonAscii(new_lines[idx])) =>
                    /\ idx <= Len(disk_lines)
                    /\ disk_lines[idx] = old_lines[idx]

\* the file was rewritten, and its second line, which held a pound sign the
\* new text had lost, is still the original line
C9_Witness ==
    /\ Len(hist) >= 1
    /\ hist[1].edit.file = Path(FALSE, <<"m.py">>)
    /\ hist[1].edit.operation = "create_or_overwrite_file"
    /\ DiskText(hist[1].before, 1) = <<LF, Pound>>
    /\ hist[1].edit.content = <<97, LF>>
    /\ Wrote(1)
    /\ DiskText(After(1), 1) = <<97, LF, Pound>>

HasChar(text, c) == \E k \in 1..Len(text) : text[k] = c

(* C10: for edit content containing a vertical tab, a warning entry is        *)
(* logged, the write is not skipped because of it, and the file written       *)
(* never contains a vertical tab.                                             *)
C10_VerticalTabNeverWritten ==
    \A k \in 1..Len(hist) :
        (OnRegularFile(k)
            /\ hist[k].edit.operation \in TextOps
            /\ HasChar(hist[k].edit.content, VT)) =>
           /\ \E j \in 1..Len(LogsOf(k)) : IsWarning(LogsOf(k)[j])
           /\ After(k) # hist[k].before => ~HasChar(DiskText(After(k), k), VT)

\* a character _contains_suspicious_control_chars flags
Suspicious(c) == c < CtrlLimit /\ c \notin {LF, CR, TAB}

(* C11: the strip the executor calls removes exactly the flagged characters   *)
(* (code point below 32, not LF, CR or TAB) and keeps the rest in order; and  *)
(* whenever an edit logs that suspicious control characters were stripped,    *)
(* the text it writes contains no flagged character.                          *)
C11_StripRemovesAllFlagged ==
    \A k \in 1..Len(hist) :
        LET n == NormalizeNewlines(hist[k].edit.content)
        IN /\ StripSuspiciousControlChars(n) = SelectSeq(n, LAMBDA c : ~Suspicious(c))
           /\ (/\ OnRegularFile(k)
               /\ \E j \in 1..Len(LogsOf(k)) : IsWarning(LogsOf(k)[j])
               /\ After(k) # hist[k].before) =>
                  \A x \in 1..Len(DiskText(After(k), k)) :
                      ~Suspicious(DiskText(After(k), k)[x])

(* C12: every file the executor has written holds no carriage return; the     *)
(* text on disk is exactly the text the edit computed, and reading it back    *)
(* and normalising it yields that same text; and an overwrite whose content   *)
(* differs from the file only in its line endings (no suspicious control      *)
(* character, no narration line) is a no-op.                                  *)
C12_NewlinesCanonical ==
    /\ \A p \in written :
          /\ ~HasChar(fs[p].text, CR)
          /\ SafeReadText(fs, p) = fs[p].text
    /\ \A k \in 1..Len(hist) :
          LET e == hist[k].edit
              t == Canonical(e.file)
          IN (OnRegularFile(k) /\ e.operation = "create_or_overwrite_file") =>
                /\ Wrote(k) =>
                      /\ ~HasChar(DiskText(After(k), k), CR)
                      /\ ReplaceChar(DiskText(After(k), k), CR, <<LF>>) = DiskText(After(k), k)
                /\ (/\ t \notin WriteProtected
                    /\ ~HasChar(e.content, VT)
                    /\ ~Contains(e.content, NarrationPhrase)
                    /\ ReplaceChar(ReplaceCRLF(e.content), CR, <<LF>>)
                          = ReplaceChar(ReplaceCRLF(DiskText(hist[k].before, k)), CR, <<LF>>)) =>
                       NoOp(k, "new content is identical to existing file")

\* content "\r\n" was written as "\n"; the same content applied again differs
\* from the file only by its line ending and was a no-op
C12_Witness ==
    /\ AppliedTwice("create_or_overwrite_file")
    /\ hist[1].edit.content = <<CR, LF>>
    /\ DiskText(hist[1].before, 1) = <<97, CR>>
    /\ Wrote(1)
    /\ DiskText(After(1), 1) = <<LF>>
    /\ NoOp(2, "new content is identical to existing file")

\* the text an operation computes from the file as read
NewTextOf(e, t, old) ==
    CASE e.operation = "create_or_overwrite_file" -> OverwriteNewText(t, old, e.content).text
      [] e.operation = "append_to_bottom" -> AppendNewText(old, e.content).text
      [] e.operation = "prepend_comment" -> PrependNewText(t, old, e.content).text

\* the touched entries the first k handled edits should have produced, in order
RECURSIVE TouchedInOrder(_)
TouchedInOrder(k) ==
    IF k = 0 THEN <<>>
    ELSE LET changed == {p \in DOMAIN fs : After(k)[p] # hist[k].before[p]}
         IN TouchedInOrder(k - 1)
               \o (IF changed = {} THEN <<>> ELSE <<JailRelative(CHOOSE p \in changed : TRUE)>>)

(* C13: the edits are handled in list order, one per step, each on the tree   *)
(* its predecessors left: the k-th handled edit is plan[k]; a known operation *)
(* on an existing regular file leaves on disk the text computed from the      *)
(* content the file had after the edit before it; and the entries of          *)
(* edit_logs and touched_files follow the order of the edits they come from.  *)
C13_EditsInListOrder ==
    /\ Len(hist) = (IF pc = "crashed" THEN i ELSE i - 1)
    /\ \A k \in 1..Len(hist) :
          LET e == hist[k].edit
              t == Canonical(e.file)
              old == NormalizeNewlines(DiskText(hist[k].before, k))
          IN /\ e = plan[k]
             /\ \A j \in 1..Len(LogsOf(k)) : Describes(LogsOf(k)[j], plan[k])
             /\ (OnRegularFile(k) /\ e.operation \in TextOps /\ t \notin WriteProtected) =>
                   DiskText(After(k), k) =
                       (IF NewTextOf(e, t, old) = old
                        THEN DiskText(hist[k].before, k)
                        ELSE NewTextOf(e, t, old))
    /\ touched = TouchedInOrder(Len(hist))

\* two appends to a.txt in one plan: the second was added below the first
C13_Witness ==
    /\ pc = "done"
    /\ Len(plan) = 2
    /\ plan[1] = Edit(Path(FALSE, <<"a.txt">>), "append_to_bottom", Hello)
    /\ plan[2] = Edit(Path(FALSE, <<"ln">>), "append_to_bottom", Hello)
    /\ hist[2].before[<<"jail", "a.txt">>].text = <<97, 10, 10, 104, 10, 10>>
    /\ fs[<<"jail", "a.txt">>].text = <<97, 10, 10, 104, 10, 10, 104, 10, 10>>
    /\ touched = <<Path(FALSE, <<"a.txt">>), Path(FALSE, <<"a.txt">>)>>

(* C14: a prepend_comment edit whose in-jail target does not exist is         *)
(* skipped: its only log entry has the reason "target file does not exist on  *)
(* disk", the tree is unchanged (no file is created) and touched_files gets   *)
(* no entry.                                                                  *)
C14_PrependMissingSkipped ==
    \A k \in 1..Len(hist) :
        LET e == hist[k].edit
            t == Canonical(e.file)
        IN (/\ ~FileMissing(e)
            /\ e.operation = "prepend_comment"
            /\ Inside(t)
            /\ t \notin Dirs
            /\ t \in DOMAIN fs => ~hist[k].before[t].exists) =>
               /\ LogsOf(k) = <<Entry(e.file, e.operation, "target file does not exist on disk")>>
               /\ After(k) = hist[k].before
               /\ TouchedOf(k) = <<>>

\* prepend_comment on the absent new.txt was skipped, new.txt is still absent,
\* and the run went on to write a.txt
C14_Witness ==
    /\ pc = "done"
    /\ Len(hist) = 2
    /\ hist[1].edit = Edit(Path(FALSE, <<"new.txt">>), "prepend_comment", Hello)
    /\ Reasons(LogsOf(1)) = <<"target file does not exist on disk">>
    /\ ~fs[<<"jail", "new.txt">>].exists
    /\ touched = <<Path(FALSE, <<"a.txt">>)>>

\* the k-th handled edit has an in-jail file and an operation that is none of
\* the three known ones, and its iteration ran to its end
UnknownOpInJail(k) ==
    LET e == hist[k].edit
    IN /\ ~FileMissing(e) /\ ~OpMissing(e)
       /\ e.operation \notin TextOps
       /\ Inside(Canonical(e.file))
       /\ (k < Len(hist) \/ pc # "crashed")

C16_MessageByOutcome ==
    pc = "done" =>
        /\ report.touched_files # <<>> <=> written # {}
        /\ report.message = "Chad executed Bob's plan and modified files."
              <=> report.touched_files # <<>>
        /\ report.message = "Chad saw edits in the plan but skipped all of them; check edit_logs in the exec report for reasons."
              <=> (report.touched_files = <<>> /\ Len(plan) >= 1)
        /\ report.message = "Chad did not modify any files (no edits in plan)."
              <=> (report.touched_files = <<>> /\ Len(plan) = 0)

\* a plan of two edits, both skipped: the report carries the skipped message
C16_Witness ==
    /\ pc = "done"
    /\ report.edits_requested = 2
    /\ report.touched_files = <<>>
    /\ fs = InitFs
    /\ report.message = "Chad saw edits in the plan but skipped all of them; check edit_logs in the exec report for reasons."

(* C17: every file path chad_execute_plan reads or writes is the jail root or *)
(* below it: the edit targets, the tool targets, the markdown notes the note  *)
(* tools write, and the scratch and exec-report artifacts of the run.         *)
C17_EveryPathInJail ==
    \A p \in written \cup io.reads \cup io.writes \cup artifacts : Inside(p)

(* C18: when task.type is not "codemod" (tool, analysis, chat, missing or     *)
(* unrecognised) no edit of task.edits is handled, whatever the list holds:   *)
(* the tree is unchanged, nothing is logged or touched, and the report's      *)
(* touched_files is empty; a task that is not a tool task either reads only   *)
(* its analysis_file, and only when that is inside the jail, and writes no    *)
(* note and sends no mail.                                                    *)
C18_EditsOnlyForCodemod ==
    task.type # "codemod" =>
        /\ hist = <<>> /\ i = 1
        /\ fs = InitFs /\ written = {}
        /\ touched = <<>> /\ edit_logs = <<>>
        /\ report = NoReport
        /\ pc = "done" => exec_report.touched_files = <<>>
        /\ task.type # "tool" =>
              /\ io.reads \subseteq {Canonical(task.analysis_file)}
              /\ \A p \in io.reads : Inside(p)
              /\ io.writes = {} /\ io.sent = <<>>
              /\ notes = NoNotes

\* a chat task carrying two edits and an analysis file returned: a.txt was
\* read for the analysis, none of the edits was applied
C18_Witness ==
    /\ pc = "done"
    /\ task.type = "chat"
    /\ Len(plan) = 2
    /\ plan[1] = Edit(Path(FALSE, <<"a.txt">>), "append_to_bottom", Hello)
    /\ task.analysis_file = Path(FALSE, <<"a.txt">>)
    /\ io.reads = {<<"jail", "a.txt">>}
    /\ fs = InitFs
    /\ exec_report.kind = "analysis"
    /\ exec_report.touched_files = <<>>

\* the recipient the server-side configuration names: SMTP_TO, else SMTP_TEST_TO
Configured(en) ==
    CASE en.to = " to@srv " -> "to@srv"
      [] en.to # "" -> en.to
      [] OTHER -> en.test_to

(* C20: a send_email call addresses every message it sends to the configured  *)
(* recipient (SMTP_TO, else SMTP_TEST_TO), whatever 'to' the caller supplied; *)
(* and when no recipient, no host or no sender (SMTP_FROM, else               *)
(* SMTP_USERNAME) is configured, the call returns without raising, sends      *)
(* nothing, has an empty tool_result and a message reporting the missing      *)
(* configuration.                                                             *)
C20_EmailRecipientForced ==
    (task.type = "tool" /\ task.tool.name = "send_email" /\ pc \in {"done", "crashed"}) =>
        /\ \A k \in 1..Len(io.sent) : io.sent[k].to = Configured(env)
        /\ (Configured(env) = "" \/ env.host = "" \/ (env.from = "" /\ env.user = "")) =>
              /\ pc = "done"
              /\ io.sent = <<>>
              /\ exec_report.tool_result = ""
              /\ exec_report.message \in
                    {"Chad was asked to send_email, but no SMTP_TO / SMTP_TEST_TO address is configured in the environment.",
                     "Chad was asked to send_email, but SMTP settings are incomplete (need at least SMTP_HOST and SMTP_FROM or SMTP_USERNAME)."}

(* C19: when a chat request starts with "#bob no-tools" (tools_enabled is    *)
(* False), the plan handed to chad_execute_plan never has task type "tool"   *)
(* and Chad runs no tool for that request, whatever the planning model       *)
(* returned.                                                                  *)
C19_NoToolsNeverRunsTool ==
    (req.message # <<>> /\ ~req.tools_enabled /\ pc # "chat") =>
        /\ TaskType(task) # "tool"
        /\ exec_report.kind # "tool"

\* the path argument of a path-taking tool names nothing inside the jail
OutsideOrMissing(path) ==
    LET target == Canonical(IF path = Path(FALSE, <<>>) THEN Path(FALSE, <<".">>) ELSE path)
    IN ~Inside(target) \/ ~Exists(fs, target)

\* task is a call of a path-taking tool that the serving executor implements
PathToolCall ==
    /\ task.type = "tool"
    /\ \/ task.tool.name \in {"list_files", "read_file"}
       \/ task.tool.name = "run_python_script" /\ env.refactored

(* C21: list_files, read_file and run_python_script never list, read or run  *)
(* anything outside the jail; when the path argument resolves outside the    *)
(* jail root or does not exist, tool_result is empty, the message reports    *)
(* the problem, no file is opened or run, and the call does not raise.       *)
C21_PathToolsStayInJail ==
    (PathToolCall /\ pc \in {"done", "crashed"}) =>
        /\ \A p \in io.reads \cup io.ran : Inside(p)
        /\ OutsideOrMissing(task.tool.args.path) =>
              /\ pc = "done"
              /\ exec_report.tool_result = ""
              /\ exec_report.message \in
                    {"Chad tried to list_files but the path was invalid or outside the project jail.",
                     "Chad tried to read_file but it does not exist, is not a file, or is outside the project jail.",
                     "Chad tried to run_python_script but the file does not exist, is not a file, or is outside the project jail."}
              /\ io.reads = {}
              /\ io.ran = {}

\* the tool names the serving executor has a handler for
Handled == IF env.refactored THEN TOOL_REGISTRY ELSE TOOL_REGISTRY \ {"run_python_script"}

(* C22: a tool plan naming a tool that is not registered never raises:       *)
(* chad_execute_plan returns a report whose tool_result and touched_files    *)
(* are empty and whose message states that the tool is not registered (is    *)
(* unknown) and that no tool was executed; no handler runs and the exec and  *)
(* scratch artifacts are still written.                                      *)
C22_UnknownToolReported ==
    (task.type = "tool" /\ task.tool.name \notin Handled /\ pc \in {"done", "crashed"}) =>
        /\ pc = "done"
        /\ exec_report.tool_result = ""
        /\ exec_report.touched_files = <<>>
        /\ exec_report.message \in
              {"Chad was asked to run an unknown tool. No tool was executed.",
               "Chad was asked to run tool, but it is not registered in bob.tools_registry. No tool was executed."}
        /\ io = NoIo
        /\ notes = NoNotes
        /\ artifacts = Artifacts

\* the decoded text of the file a read_file call names
ReadRaw == ReadText(fs, Canonical(task.tool.args.path))

\* a read_file call that found its file has returned
ReadDone ==
    /\ pc = "done" /\ task.type = "tool" /\ task.tool.name = "read_file"
    /\ ~OutsideOrMissing(task.tool.args.path)
    /\ Canonical(task.tool.args.path) \notin Dirs

(* C23: read_file returns the whole file text when its length is at most     *)
(* max_chars, and otherwise exactly the first max_chars characters followed  *)
(* by a blank line and "... (truncated)"; for every integer max_chars the    *)
(* result is never longer than max_chars plus the length of that suffix.     *)
C23_ReadFileTruncates ==
    ReadDone =>
        LET max_chars == task.tool.args.max_chars
            tool_result == exec_report.result_text
        IN /\ Len(ReadRaw) <= max_chars => tool_result = ReadRaw
           /\ Len(ReadRaw) > max_chars =>
                 /\ Len(tool_result) = max_chars + Len(TruncatedSuffix)
                 /\ \A k \in 1..max_chars : tool_result[k] = ReadRaw[k]
                 /\ \A k \in 1..Len(TruncatedSuffix) :
                       tool_result[max_chars + k] = TruncatedSuffix[k]
           /\ Len(tool_result) <= max_chars + Len(TruncatedSuffix)

\* the notes in the notes directory
TheNotes == {n \in NoteNames : notes[n].exists}

\* the slug of a note title, whatever the clock reads
SlugNames(title) ==
    {NoteName(Slugify(IF LStrip(RStrip(title)) = <<>> THEN <<110, 111, 116, 101>> ELSE title, now)) :
        now \in Clock}

\* content terminated by a newline
Terminated(content) ==
    IF content # <<>> /\ content[Len(content)] = LF THEN content ELSE content \o <<LF>>

\* the call that has just returned is a call of the note tool tool_name
NoteCallDone(tool_name) == pc = "done" /\ task.type = "tool" /\ task.tool.name = tool_name

(* C24: notes accumulate under a title: create_markdown_note(title, c)       *)
(* leaves <slug(title)>.md in the notes directory containing exactly c; a    *)
(* later append_to_markdown_note with the same title targets the same file,  *)
(* keeps its content as a prefix and adds the new content terminated by a    *)
(* newline; append_to_markdown_note on a missing note creates it with the    *)
(* given content.                                                            *)
C24_NotesAccumulate ==
    /\ (NoteCallDone("create_markdown_note") /\ req.earlier = <<>>) =>
          \E n \in SlugNames(task.tool.args.title) :
             TheNotes = {n} /\ notes[n].text = task.tool.args.content
    /\ (NoteCallDone("append_to_markdown_note") /\ req.earlier = <<>>) =>
          \E n \in SlugNames(task.tool.args.title) :
             TheNotes = {n} /\ notes[n].text = task.tool.args.content
    /\ (/\ NoteCallDone("append_to_markdown_note")
        /\ Len(req.earlier) = 1
        /\ req.earlier[1].tool.name = "create_markdown_note"
        /\ req.earlier[1].tool.args.title = task.tool.args.title) =>
          \E n \in SlugNames(task.tool.args.title) :
             /\ TheNotes = {n}
             /\ notes[n].text =
                   req.earlier[1].tool.args.content \o Terminated(task.tool.args.content)

\* the k-th edit is an overwrite of a .py file that wrote the file
OverwrotePy(k) ==
    /\ hist[k].edit.operation = "create_or_overwrite_file"
    /\ OnRegularFile(k)
    /\ PathSuffix(Canonical(hist[k].edit.file)) = ".py"
    /\ Wrote(k)

(* C25: after a create_or_overwrite_file write to a .py target, no line of   *)
(* the written file contains the substring "rest of code unchanged",         *)
(* whatever the edit content and whatever the original file contained.       *)
C25_NoNarrationWritten ==
    \A k \in 1..Len(hist) :
        OverwrotePy(k) =>
            LET lines == SplitLF(DiskText(After(k), k))
            IN \A n \in 1..Len(lines) : ~Contains(lines[n], NarrationPhrase)

\* the k-th edit is a prepend_comment that wrote its file
Prepended(k) ==
    /\ hist[k].edit.operation = "prepend_comment"
    /\ OnRegularFile(k)
    /\ Wrote(k)

\* the first line of text with its newline, and what follows it
FirstLine(text) ==
    IF \E n \in 1..Len(text) : text[n] = LF
    THEN SubSeq(text, 1, CHOOSE n \in 1..Len(text) :
                            text[n] = LF /\ \A j \in 1..(n - 1) : text[j] # LF)
    ELSE text \o <<LF>>
AfterFirstLine(text) ==
    IF \E n \in 1..Len(text) : text[n] = LF
    THEN SubSeq(text, Len(FirstLine(text)) + 1, Len(text))
    ELSE <<>>

(* C26: prepend_comment only adds text: the written file is the inserted     *)
(* block, a blank line and the complete original content, no character       *)
(* removed or altered. For a .py target whose content starts (left-stripped) *)
(* with a triple quote the block goes after the shebang line when the        *)
(* original's first line starts with "#!", else at the very top; in every    *)
(* other case the text is prefix + content + blank line + original, the      *)
(* prefix being "# " or "// " by file extension.                             *)
C26_PrependOnlyAdds ==
    \A k \in 1..Len(hist) :
        Prepended(k) =>
            LET target == Canonical(hist[k].edit.file)
                content == hist[k].edit.content
                original == DiskText(hist[k].before, k)
                new_text == DiskText(After(k), k)
                triple == \/ StartsWith(LStrip(content), <<34, 34, 34>>)
                          \/ StartsWith(LStrip(content), <<39, 39, 39>>)
                prefix == IF PathSuffix(target) \in {".js", ".ts", ".jsx", ".tsx", ".c", ".cpp", ".h", ".php"}
                          THEN <<47, 47, 32>> ELSE <<35, 32>>
            IN IF PathSuffix(target) = ".py" /\ triple
               THEN IF StartsWith(original, <<35, 33>>)
                    THEN new_text = FirstLine(original) \o <<LF>> \o content \o <<LF, LF>>
                                      \o AfterFirstLine(original)
                    ELSE new_text = content \o <<LF, LF>> \o original
               ELSE new_text = prefix \o content \o <<LF, LF>> \o original

\* C27: message ids are unique. Every call of next_message_id returns the id one
\* greater than the call before it and leaves it in the sequence file, so no two
\* requests, concurrent ones included, get the same base name, and each
\* <base>.user.txt holds the message of the one request that was given that base.
Returned(k) == callers[issued[k].proc].calls >= issued[k].call

C27_MessageIdsUnique ==
    /\ \A a, b \in 1..Len(issued) : a # b => issued[a].base # issued[b].base
    /\ \A k \in 2..Len(issued) : issued[k].new_val = issued[k - 1].new_val + 1
    /\ (\A p \in Procs : callers[p].pc \in {"idle", "user"}) /\ issued # <<>>
          => Current(seq_file) = issued[Len(issued)].new_val
    /\ \A k \in 1..Len(issued) :
          Returned(k) => /\ issued[k].base \in DOMAIN user_txt
                         /\ user_txt[issued[k].base] = UserText(issued[k].proc, issued[k].call)

\* the same, as long as one request at a time is inside next_message_id and api_chat
OneAtATime == \A k \in 2..Len(issued) : issued[k].proc = 1

\* C28: rollback is exact. After _restore_files every path of the ticket's
\* safe_paths is as it was when the snapshot of that attempt was taken: a file
\* that existed exists with its original content (none is deleted, a file that
\* is not UTF-8 included), a file that did not exist is gone; so when every
\* attempt has failed the safe paths are as they were at the start.
SafeFiles ==
    UNION {IF ticket.safe_paths[k] \in RootDirs THEN Rglob(ticket.safe_paths[k])
           ELSE {ticket.safe_paths[k]} : k \in 1..Len(ticket.safe_paths)}

\* the snapshot event of the attempt that event k belongs to
SnapshotEvent(k) ==
    CHOOSE j \in 1..k : tlog[j].ev = "snapshot" /\ tlog[j].attempt = tlog[k].attempt

C28_RollbackExact ==
    /\ \A k \in 1..Len(tlog) :
          tlog[k].ev = "restore"
             => \A rel \in SafeFiles : tlog[k].root[rel] = tlog[SnapshotEvent(k)].root[rel]
    /\ (tpc = "returned" /\ ~summary.success)
          => \A rel \in SafeFiles : root_dir[rel] = InitRoot[rel]

\* C30: run_ticket_with_tests always terminates, after at most max_attempts
\* attempts; it makes no attempt after the first one whose tests pass; after
\* every failed attempt it restores the snapshot before the next attempt
\* starts; and it returns success = true exactly when the tests of the last
\* attempt performed passed, with one attempts record per attempt performed.
Performed == {k \in 1..Len(tlog) : tlog[k].ev = "snapshot"}

TicketRunSafe ==
    /\ Cardinality(Performed) = attempt
    /\ attempt <= ticket.max_attempts
    /\ \A k \in 1..Len(summary.attempts) :
          /\ summary.attempts[k].attempt = k
          /\ summary.attempts[k].tests_ok => k = Len(summary.attempts) /\ k = attempt
    /\ \A k \in 1..Len(tlog) :
          tlog[k].ev = "fail" /\ (\E j \in (k + 1)..Len(tlog) : tlog[j].ev = "snapshot")
             => tlog[k + 1].ev = "restore"
    /\ \A k \in 1..Len(tlog) :
          tlog[k].ev = "pass" => \A j \in (k + 1)..Len(tlog) : tlog[j].ev = "return"
    /\ tpc = "returned"
          => /\ Len(summary.attempts) = attempt
             /\ summary.success = (attempt > 0 /\ summary.attempts[attempt].tests_ok)

C30_TicketRunTerminates == []TicketRunSafe /\ <>(tpc \in {"returned", "raised"})

\* a run that failed, restored, tried again, passed and returned
C30_Witness ==
    /\ tpc = "returned"
    /\ summary.success
    /\ Len(summary.attempts) = 2
    /\ ~summary.attempts[1].tests_ok
    /\ \E k \in 1..Len(tlog) : tlog[k].ev = "restore"

\* C29: a self_improvement queue item is run at most once. Once run_queue has
\* processed it (renamed it to <stem>.done.json on success, renamed it to
\* <stem>.failed.json or deleted it on failure), no later invocation of
\* run_queue runs it again.
\* the queue item a file started as: its name up to the first dot
Origin(name) ==
    LET dots == {k \in 1..Len(name) : name[k] = 46}
    IN IF dots = {} THEN name
       ELSE SubSeq(name, 1, (CHOOSE k \in dots : \A j \in dots : k <= j) - 1)

Processed(k) == qlog[k].outcome \in {"done", "failed", "deleted"}

C29_ItemRunAtMostOnce ==
    \A k, j \in 1..Len(qlog) :
        /\ Processed(k)
        /\ qlog[j].run > qlog[k].run
        => Origin(qlog[j].name) # Origin(qlog[k].name)

====
